---- MODULE Spec2Model ----
(***************************************************************************)
(* AI Scenario Builder: the backend pipeline that turns a scenario         *)
(* description into a workflow, a Mermaid diagram, a data model and a      *)
(* summary (backend/src/utils, services, controllers), as a state machine. *)
(*                                                                         *)
(* Three specifications share the variables:                               *)
(*   UnitSpec  direct calls of the exported functions, one call per step,  *)
(*             the arguments drawn from bounded sets;                      *)
(*   Spec      the HTTP handler of POST /api/scenario serving requests     *)
(*             that interleave at the simulated-latency wait;              *)
(*   RunsSpec  generateWorkflow called directly, as the tests call it, the *)
(*             runs interleaving at the wait and their callers changing    *)
(*             the result objects they were handed.                        *)
(*                                                                         *)
(* A JavaScript string is a sequence of one-character strings, so that     *)
(* includes, toLowerCase, trim, substring, replace and template literals   *)
(* are computed character by character.                                    *)
(***************************************************************************)
EXTENDS Integers, Sequences, FiniteSets, TLC

VARIABLES
  call,      \* UnitSpec: the latest direct call, [fn, arg.., ret]
  pc,        \* Spec: pc[r], where request r stands in generateScenario
  body,      \* Spec: body[r], the description member of req.body
  started,   \* Spec: started[r], the arguments generateWorkflow was called with
  response,  \* Spec: response[r], the responses sent on res, in order
  runs,      \* RunsSpec: runs[r], one run of generateWorkflow:
             \*   [pc, description, aiResponse, result, edited]
  page,      \* PageSpec: the state of Home and of its ScenarioInput
  mermaid    \* DiagramSpec: the state of one MermaidDiagram

vars == <<call, pc, body, started, response, runs, page, mermaid>>

----------------------------------------------------------------------------
(* JavaScript values that cross a dynamically typed boundary.              *)

Undefined == [t |-> "undefined"]
Null == [t |-> "null"]
Str(chars) == [t |-> "string", chars |-> chars]
Num(n) == [t |-> "number", n |-> n]
Bool(b) == [t |-> "boolean", b |-> b]
Arr(items) == [t |-> "array", items |-> items]
\* a member every object literal inherits from Object.prototype
Inherited(key) == [t |-> "inherited", key |-> key]

\* typeof v === 'string'
IsString(v) == v.t = "string"

\* !v : undefined, null, '', 0 and false are falsy, every object is truthy
Falsy(v) ==
  \/ v.t \in {"undefined", "null"}
  \/ v.t = "string" /\ v.chars = <<>>
  \/ v.t = "number" /\ v.n = 0
  \/ v.t = "boolean" /\ ~v.b

----------------------------------------------------------------------------
(* String primitives.                                                      *)

\* text.includes(kw)
Includes(text, kw) ==
  \E i \in 0..(Len(text) - Len(kw)) : \A j \in 1..Len(kw) : text[i + j] = kw[j]

ToLowerTable ==
  [c \in {"A","B","C","D","E","F","G","H","I","J","K","L","M",
          "N","O","P","Q","R","S","T","U","V","W","X","Y","Z"} |->
     CASE c = "A" -> "a" [] c = "B" -> "b" [] c = "C" -> "c" [] c = "D" -> "d"
       [] c = "E" -> "e" [] c = "F" -> "f" [] c = "G" -> "g" [] c = "H" -> "h"
       [] c = "I" -> "i" [] c = "J" -> "j" [] c = "K" -> "k" [] c = "L" -> "l"
       [] c = "M" -> "m" [] c = "N" -> "n" [] c = "O" -> "o" [] c = "P" -> "p"
       [] c = "Q" -> "q" [] c = "R" -> "r" [] c = "S" -> "s" [] c = "T" -> "t"
       [] c = "U" -> "u" [] c = "V" -> "v" [] c = "W" -> "w" [] c = "X" -> "x"
       [] c = "Y" -> "y" [] c = "Z" -> "z"]

\* text.toLowerCase()
toLowerCase(text) ==
  [i \in 1..Len(text) |->
     IF text[i] \in DOMAIN ToLowerTable THEN ToLowerTable[text[i]] ELSE text[i]]

\* the white space and line terminators String.prototype.trim strips
WhiteSpace == {" ", "\t", "\n", "\r"}

\* text.trim()
trim(text) ==
  LET keep == {i \in 1..Len(text) : text[i] \notin WhiteSpace}
  IN  IF keep = {} THEN <<>>
      ELSE SubSeq(text, CHOOSE i \in keep : \A j \in keep : i <= j,
                        CHOOSE i \in keep : \A j \in keep : j <= i)

\* text.substring(0, end)
substring0(text, end) == SubSeq(text, 1, IF end < Len(text) THEN end ELSE Len(text))

\* `${n}` for a non-negative integer n
Digits == <<"0","1","2","3","4","5","6","7","8","9">>

RECURSIVE NumToString(_)
NumToString(n) ==
  IF n < 10 THEN <<Digits[n + 1]>>
  ELSE NumToString(n \div 10) \o <<Digits[(n % 10) + 1]>>

\* lines.join(sep)
RECURSIVE Join(_, _)
Join(lines, sep) ==
  IF lines = <<>> THEN <<>>
  ELSE IF Len(lines) = 1 THEN lines[1]
  ELSE Join(SubSeq(lines, 1, Len(lines) - 1), sep) \o sep \o lines[Len(lines)]

----------------------------------------------------------------------------
(* Object literals: the own properties in insertion order, as a sequence   *)
(* of [key, value]; a property read falls through to Object.prototype.     *)

ObjectPrototypeKeys ==
  { <<"c","o","n","s","t","r","u","c","t","o","r">>, <<"t","o","S","t","r","i","n","g">>, <<"t","o","L","o","c","a","l","e","S","t","r","i","n","g">>, <<"v","a","l","u","e","O","f">>,
    <<"h","a","s","O","w","n","P","r","o","p","e","r","t","y">>, <<"i","s","P","r","o","t","o","t","y","p","e","O","f">>, <<"p","r","o","p","e","r","t","y","I","s","E","n","u","m","e","r","a","b","l","e">>,
    <<"_","_","p","r","o","t","o","_","_">> }

HasOwn(obj, key) == \E i \in 1..Len(obj) : obj[i].key = key

Own(obj, key) == obj[CHOOSE i \in 1..Len(obj) : obj[i].key = key].value

----------------------------------------------------------------------------
(* utils/mockAI.js                                                         *)

\* obj[key] of an object literal: own property, else Object.prototype's
Get(obj, key) ==
  IF HasOwn(obj, key) THEN Own(obj, key)
  ELSE IF key \in ObjectPrototypeKeys THEN Inherited(key)
  ELSE Undefined

\* Object.entries(types): the own keys in insertion order
types ==
  <<
    [key |-> <<"e","c","o","m","m","e","r","c","e">>,
     value |-> <<<<"s","h","o","p">>,
               <<"c","a","r","t">>,
               <<"b","u","y">>,
               <<"p","u","r","c","h","a","s","e">>,
               <<"o","r","d","e","r">>,
               <<"p","a","y","m","e","n","t">>,
               <<"c","h","e","c","k","o","u","t">>,
               <<"p","r","o","d","u","c","t">>>>],
    [key |-> <<"a","u","t","h">>,
     value |-> <<<<"l","o","g","i","n">>,
               <<"s","i","g","n","u","p">>,
               <<"r","e","g","i","s","t","e","r">>,
               <<"p","a","s","s","w","o","r","d">>,
               <<"a","u","t","h","e","n","t","i","c","a","t","i","o","n">>,
               <<"u","s","e","r"," ","a","c","c","o","u","n","t">>>>],
    [key |-> <<"b","o","o","k","i","n","g">>,
     value |-> <<<<"b","o","o","k">>,
               <<"r","e","s","e","r","v","e">>,
               <<"a","p","p","o","i","n","t","m","e","n","t">>,
               <<"s","c","h","e","d","u","l","e">>,
               <<"c","a","l","e","n","d","a","r">>>>],
    [key |-> <<"s","u","p","p","o","r","t">>,
     value |-> <<<<"t","i","c","k","e","t">>,
               <<"s","u","p","p","o","r","t">>,
               <<"h","e","l","p">>,
               <<"i","s","s","u","e">>,
               <<"c","o","m","p","l","a","i","n","t">>,
               <<"c","u","s","t","o","m","e","r"," ","s","e","r","v","i","c","e">>>>],
    [key |-> <<"c","o","n","t","e","n","t">>,
     value |-> <<<<"p","o","s","t">>,
               <<"b","l","o","g">>,
               <<"a","r","t","i","c","l","e">>,
               <<"p","u","b","l","i","s","h">>,
               <<"c","o","n","t","e","n","t">>,
               <<"w","r","i","t","e">>>>],
    [key |-> <<"w","o","r","k","f","l","o","w">>,
     value |-> <<<<"a","p","p","r","o","v","a","l">>,
               <<"r","e","v","i","e","w">>,
               <<"p","r","o","c","e","s","s">>,
               <<"w","o","r","k","f","l","o","w">>,
               <<"t","a","s","k">>,
               <<"a","s","s","i","g","n">>>>],
    [key |-> <<"d","a","t","a">>,
     value |-> <<<<"i","m","p","o","r","t">>,
               <<"e","x","p","o","r","t">>,
               <<"s","y","n","c">>,
               <<"m","i","g","r","a","t","e">>,
               <<"t","r","a","n","s","f","e","r">>,
               <<"d","a","t","a">>>>],
    [key |-> <<"n","o","t","i","f","i","c","a","t","i","o","n">>,
     value |-> <<<<"n","o","t","i","f","y">>,
               <<"a","l","e","r","t">>,
               <<"e","m","a","i","l">>,
               <<"s","m","s">>,
               <<"n","o","t","i","f","i","c","a","t","i","o","n">>,
               <<"r","e","m","i","n","d">>>>]
  >>

\* keywords.some(kw => lowerDesc.includes(kw))
SomeKeyword(keywords, lowerDesc) ==
  \E k \in 1..Len(keywords) : Includes(lowerDesc, keywords[k])

\* the for-of loop over Object.entries(types) from entry i on, with its break
RECURSIVE DetectFrom(_, _)
DetectFrom(lowerDesc, i) ==
  IF i > Len(types) THEN <<"g","e","n","e","r","a","l">>
  ELSE IF SomeKeyword(types[i].value, lowerDesc) THEN types[i].key
  ELSE DetectFrom(lowerDesc, i + 1)

\* the loop without its break: the last matching entry wins
RECURSIVE DetectLastFrom(_, _, _)
DetectLastFrom(lowerDesc, i, detected) ==
  IF i > Len(types) THEN detected
  ELSE DetectLastFrom(lowerDesc, i + 1,
         IF SomeKeyword(types[i].value, lowerDesc) THEN types[i].key ELSE detected)

analyzeDescription_NoBreak(description) ==
  LET lowerDesc == toLowerCase(description)
  IN  [type |-> DetectLastFrom(lowerDesc, 1, <<"g","e","n","e","r","a","l">>), description |-> lowerDesc]

analyzeDescription(description) ==
  LET lowerDesc == toLowerCase(description)
  IN  [type |-> DetectFrom(lowerDesc, 1), description |-> lowerDesc]

templates ==
  <<
    [key |-> <<"e","c","o","m","m","e","r","c","e">>,
     value |-> Arr(<<
        [id |-> 1, name |-> <<"B","r","o","w","s","e"," ","P","r","o","d","u","c","t","s">>,
         description |-> <<"U","s","e","r"," ","b","r","o","w","s","e","s"," ","a","v","a","i","l","a","b","l","e"," ","p","r","o","d","u","c","t","s">>,
         type |-> <<"u","s","e","r","_","a","c","t","i","o","n">>],
        [id |-> 2, name |-> <<"A","d","d"," ","t","o"," ","C","a","r","t">>,
         description |-> <<"U","s","e","r"," ","a","d","d","s"," ","s","e","l","e","c","t","e","d"," ","i","t","e","m","s"," ","t","o"," ","s","h","o","p","p","i","n","g"," ","c","a","r","t">>,
         type |-> <<"u","s","e","r","_","a","c","t","i","o","n">>],
        [id |-> 3, name |-> <<"V","a","l","i","d","a","t","e"," ","C","a","r","t">>,
         description |-> <<"S","y","s","t","e","m"," ","v","a","l","i","d","a","t","e","s"," ","c","a","r","t"," ","i","t","e","m","s"," ","a","n","d"," ","a","v","a","i","l","a","b","i","l","i","t","y">>,
         type |-> <<"s","y","s","t","e","m","_","c","h","e","c","k">>],
        [id |-> 4, name |-> <<"E","n","t","e","r"," ","S","h","i","p","p","i","n","g"," ","I","n","f","o">>,
         description |-> <<"U","s","e","r"," ","p","r","o","v","i","d","e","s"," ","s","h","i","p","p","i","n","g"," ","a","d","d","r","e","s","s">>,
         type |-> <<"u","s","e","r","_","i","n","p","u","t">>],
        [id |-> 5, name |-> <<"S","e","l","e","c","t"," ","P","a","y","m","e","n","t"," ","M","e","t","h","o","d">>,
         description |-> <<"U","s","e","r"," ","c","h","o","o","s","e","s"," ","p","a","y","m","e","n","t"," ","o","p","t","i","o","n">>,
         type |-> <<"u","s","e","r","_","a","c","t","i","o","n">>],
        [id |-> 6, name |-> <<"P","r","o","c","e","s","s"," ","P","a","y","m","e","n","t">>,
         description |-> <<"S","y","s","t","e","m"," ","p","r","o","c","e","s","s","e","s"," ","t","h","e"," ","p","a","y","m","e","n","t"," ","t","r","a","n","s","a","c","t","i","o","n">>,
         type |-> <<"s","y","s","t","e","m","_","a","c","t","i","o","n">>],
        [id |-> 7, name |-> <<"P","a","y","m","e","n","t"," ","V","e","r","i","f","i","c","a","t","i","o","n">>,
         description |-> <<"V","e","r","i","f","y"," ","p","a","y","m","e","n","t"," ","s","u","c","c","e","s","s"," ","o","r"," ","f","a","i","l","u","r","e">>,
         type |-> <<"d","e","c","i","s","i","o","n">>],
        [id |-> 8, name |-> <<"G","e","n","e","r","a","t","e"," ","O","r","d","e","r">>,
         description |-> <<"S","y","s","t","e","m"," ","c","r","e","a","t","e","s"," ","o","r","d","e","r"," ","r","e","c","o","r","d">>,
         type |-> <<"s","y","s","t","e","m","_","a","c","t","i","o","n">>],
        [id |-> 9, name |-> <<"S","e","n","d"," ","C","o","n","f","i","r","m","a","t","i","o","n">>,
         description |-> <<"E","m","a","i","l"," ","c","o","n","f","i","r","m","a","t","i","o","n"," ","s","e","n","t"," ","t","o"," ","u","s","e","r">>,
         type |-> <<"n","o","t","i","f","i","c","a","t","i","o","n">>],
        [id |-> 10, name |-> <<"U","p","d","a","t","e"," ","I","n","v","e","n","t","o","r","y">>,
         description |-> <<"S","y","s","t","e","m"," ","u","p","d","a","t","e","s"," ","p","r","o","d","u","c","t"," ","i","n","v","e","n","t","o","r","y">>,
         type |-> <<"s","y","s","t","e","m","_","a","c","t","i","o","n">>]
     >>)],
    [key |-> <<"a","u","t","h">>,
     value |-> Arr(<<
        [id |-> 1, name |-> <<"E","n","t","e","r"," ","C","r","e","d","e","n","t","i","a","l","s">>,
         description |-> <<"U","s","e","r"," ","e","n","t","e","r","s"," ","u","s","e","r","n","a","m","e","/","e","m","a","i","l"," ","a","n","d"," ","p","a","s","s","w","o","r","d">>,
         type |-> <<"u","s","e","r","_","i","n","p","u","t">>],
        [id |-> 2, name |-> <<"V","a","l","i","d","a","t","e"," ","I","n","p","u","t">>,
         description |-> <<"S","y","s","t","e","m"," ","v","a","l","i","d","a","t","e","s"," ","i","n","p","u","t"," ","f","o","r","m","a","t">>,
         type |-> <<"s","y","s","t","e","m","_","c","h","e","c","k">>],
        [id |-> 3, name |-> <<"C","h","e","c","k"," ","U","s","e","r"," ","E","x","i","s","t","s">>,
         description |-> <<"D","a","t","a","b","a","s","e"," ","l","o","o","k","u","p"," ","f","o","r"," ","u","s","e","r"," ","r","e","c","o","r","d">>,
         type |-> <<"d","a","t","a","b","a","s","e","_","q","u","e","r","y">>],
        [id |-> 4, name |-> <<"V","e","r","i","f","y"," ","P","a","s","s","w","o","r","d">>,
         description |-> <<"C","o","m","p","a","r","e"," ","p","a","s","s","w","o","r","d"," ","h","a","s","h">>,
         type |-> <<"s","y","s","t","e","m","_","c","h","e","c","k">>],
        [id |-> 5, name |-> <<"A","u","t","h","e","n","t","i","c","a","t","i","o","n"," ","D","e","c","i","s","i","o","n">>,
         description |-> <<"D","e","t","e","r","m","i","n","e"," ","i","f"," ","c","r","e","d","e","n","t","i","a","l","s"," ","a","r","e"," ","v","a","l","i","d">>,
         type |-> <<"d","e","c","i","s","i","o","n">>],
        [id |-> 6, name |-> <<"G","e","n","e","r","a","t","e"," ","S","e","s","s","i","o","n">>,
         description |-> <<"C","r","e","a","t","e"," ","s","e","s","s","i","o","n"," ","t","o","k","e","n"," ","o","r"," ","J","W","T">>,
         type |-> <<"s","y","s","t","e","m","_","a","c","t","i","o","n">>],
        [id |-> 7, name |-> <<"L","o","g"," ","A","u","t","h","e","n","t","i","c","a","t","i","o","n">>,
         description |-> <<"R","e","c","o","r","d"," ","l","o","g","i","n"," ","a","t","t","e","m","p","t"," ","f","o","r"," ","s","e","c","u","r","i","t","y">>,
         type |-> <<"l","o","g","g","i","n","g">>],
        [id |-> 8, name |-> <<"R","e","d","i","r","e","c","t"," ","U","s","e","r">>,
         description |-> <<"S","e","n","d"," ","u","s","e","r"," ","t","o"," ","d","a","s","h","b","o","a","r","d"," ","o","r"," ","h","o","m","e">>,
         type |-> <<"n","a","v","i","g","a","t","i","o","n">>]
     >>)],
    [key |-> <<"b","o","o","k","i","n","g">>,
     value |-> Arr(<<
        [id |-> 1, name |-> <<"S","e","l","e","c","t"," ","S","e","r","v","i","c","e">>,
         description |-> <<"U","s","e","r"," ","c","h","o","o","s","e","s"," ","t","h","e"," ","s","e","r","v","i","c","e"," ","t","o"," ","b","o","o","k">>,
         type |-> <<"u","s","e","r","_","a","c","t","i","o","n">>],
        [id |-> 2, name |-> <<"C","h","e","c","k"," ","A","v","a","i","l","a","b","i","l","i","t","y">>,
         description |-> <<"S","y","s","t","e","m"," ","c","h","e","c","k","s"," ","a","v","a","i","l","a","b","l","e"," ","t","i","m","e"," ","s","l","o","t","s">>,
         type |-> <<"s","y","s","t","e","m","_","c","h","e","c","k">>],
        [id |-> 3, name |-> <<"D","i","s","p","l","a","y"," ","S","l","o","t","s">>,
         description |-> <<"S","h","o","w"," ","a","v","a","i","l","a","b","l","e"," ","d","a","t","e","s"," ","a","n","d"," ","t","i","m","e","s">>,
         type |-> <<"d","i","s","p","l","a","y">>],
        [id |-> 4, name |-> <<"S","e","l","e","c","t"," ","T","i","m","e"," ","S","l","o","t">>,
         description |-> <<"U","s","e","r"," ","p","i","c","k","s"," ","p","r","e","f","e","r","r","e","d"," ","d","a","t","e"," ","a","n","d"," ","t","i","m","e">>,
         type |-> <<"u","s","e","r","_","a","c","t","i","o","n">>],
        [id |-> 5, name |-> <<"E","n","t","e","r"," ","D","e","t","a","i","l","s">>,
         description |-> <<"U","s","e","r"," ","p","r","o","v","i","d","e","s"," ","c","o","n","t","a","c","t"," ","a","n","d"," ","b","o","o","k","i","n","g"," ","d","e","t","a","i","l","s">>,
         type |-> <<"u","s","e","r","_","i","n","p","u","t">>],
        [id |-> 6, name |-> <<"V","a","l","i","d","a","t","e"," ","B","o","o","k","i","n","g">>,
         description |-> <<"S","y","s","t","e","m"," ","v","a","l","i","d","a","t","e","s"," ","t","h","e"," ","b","o","o","k","i","n","g"," ","r","e","q","u","e","s","t">>,
         type |-> <<"s","y","s","t","e","m","_","c","h","e","c","k">>],
        [id |-> 7, name |-> <<"C","r","e","a","t","e"," ","R","e","s","e","r","v","a","t","i","o","n">>,
         description |-> <<"S","y","s","t","e","m"," ","c","r","e","a","t","e","s"," ","t","h","e"," ","b","o","o","k","i","n","g"," ","r","e","c","o","r","d">>,
         type |-> <<"d","a","t","a","b","a","s","e","_","w","r","i","t","e">>],
        [id |-> 8, name |-> <<"S","e","n","d"," ","C","o","n","f","i","r","m","a","t","i","o","n">>,
         description |-> <<"E","m","a","i","l","/","S","M","S"," ","c","o","n","f","i","r","m","a","t","i","o","n"," ","s","e","n","t">>,
         type |-> <<"n","o","t","i","f","i","c","a","t","i","o","n">>],
        [id |-> 9, name |-> <<"A","d","d"," ","t","o"," ","C","a","l","e","n","d","a","r">>,
         description |-> <<"O","p","t","i","o","n","a","l"," ","c","a","l","e","n","d","a","r"," ","i","n","t","e","g","r","a","t","i","o","n">>,
         type |-> <<"i","n","t","e","g","r","a","t","i","o","n">>]
     >>)],
    [key |-> <<"s","u","p","p","o","r","t">>,
     value |-> Arr(<<
        [id |-> 1, name |-> <<"O","p","e","n"," ","T","i","c","k","e","t"," ","F","o","r","m">>,
         description |-> <<"U","s","e","r"," ","a","c","c","e","s","s","e","s"," ","s","u","p","p","o","r","t"," ","r","e","q","u","e","s","t"," ","f","o","r","m">>,
         type |-> <<"n","a","v","i","g","a","t","i","o","n">>],
        [id |-> 2, name |-> <<"S","e","l","e","c","t"," ","C","a","t","e","g","o","r","y">>,
         description |-> <<"U","s","e","r"," ","c","h","o","o","s","e","s"," ","i","s","s","u","e"," ","c","a","t","e","g","o","r","y">>,
         type |-> <<"u","s","e","r","_","a","c","t","i","o","n">>],
        [id |-> 3, name |-> <<"D","e","s","c","r","i","b","e"," ","I","s","s","u","e">>,
         description |-> <<"U","s","e","r"," ","d","e","s","c","r","i","b","e","s"," ","t","h","e"," ","p","r","o","b","l","e","m"," ","i","n"," ","d","e","t","a","i","l">>,
         type |-> <<"u","s","e","r","_","i","n","p","u","t">>],
        [id |-> 4, name |-> <<"A","t","t","a","c","h"," ","F","i","l","e","s">>,
         description |-> <<"U","s","e","r"," ","u","p","l","o","a","d","s"," ","s","u","p","p","o","r","t","i","n","g"," ","d","o","c","u","m","e","n","t","s">>,
         type |-> <<"u","s","e","r","_","a","c","t","i","o","n">>],
        [id |-> 5, name |-> <<"A","u","t","o","-","C","a","t","e","g","o","r","i","z","e">>,
         description |-> <<"A","I"," ","a","n","a","l","y","z","e","s"," ","a","n","d"," ","t","a","g","s"," ","t","h","e"," ","t","i","c","k","e","t">>,
         type |-> <<"a","i","_","p","r","o","c","e","s","s">>],
        [id |-> 6, name |-> <<"P","r","i","o","r","i","t","y"," ","A","s","s","i","g","n","m","e","n","t">>,
         description |-> <<"S","y","s","t","e","m"," ","a","s","s","i","g","n","s"," ","p","r","i","o","r","i","t","y"," ","l","e","v","e","l">>,
         type |-> <<"s","y","s","t","e","m","_","a","c","t","i","o","n">>],
        [id |-> 7, name |-> <<"R","o","u","t","e"," ","t","o"," ","A","g","e","n","t">>,
         description |-> <<"T","i","c","k","e","t"," ","a","s","s","i","g","n","e","d"," ","t","o"," ","a","p","p","r","o","p","r","i","a","t","e"," ","a","g","e","n","t">>,
         type |-> <<"s","y","s","t","e","m","_","a","c","t","i","o","n">>],
        [id |-> 8, name |-> <<"N","o","t","i","f","y"," ","U","s","e","r">>,
         description |-> <<"C","o","n","f","i","r","m","a","t","i","o","n"," ","s","e","n","t"," ","w","i","t","h"," ","t","i","c","k","e","t"," ","n","u","m","b","e","r">>,
         type |-> <<"n","o","t","i","f","i","c","a","t","i","o","n">>],
        [id |-> 9, name |-> <<"N","o","t","i","f","y"," ","A","g","e","n","t">>,
         description |-> <<"A","g","e","n","t"," ","r","e","c","e","i","v","e","s"," ","n","e","w"," ","t","i","c","k","e","t"," ","a","l","e","r","t">>,
         type |-> <<"n","o","t","i","f","i","c","a","t","i","o","n">>]
     >>)],
    [key |-> <<"c","o","n","t","e","n","t">>,
     value |-> Arr(<<
        [id |-> 1, name |-> <<"C","r","e","a","t","e"," ","D","r","a","f","t">>,
         description |-> <<"U","s","e","r"," ","s","t","a","r","t","s"," ","n","e","w"," ","c","o","n","t","e","n","t"," ","d","r","a","f","t">>,
         type |-> <<"u","s","e","r","_","a","c","t","i","o","n">>],
        [id |-> 2, name |-> <<"W","r","i","t","e"," ","C","o","n","t","e","n","t">>,
         description |-> <<"U","s","e","r"," ","w","r","i","t","e","s"," ","t","h","e"," ","m","a","i","n"," ","c","o","n","t","e","n","t">>,
         type |-> <<"u","s","e","r","_","i","n","p","u","t">>],
        [id |-> 3, name |-> <<"A","d","d"," ","M","e","d","i","a">>,
         description |-> <<"U","s","e","r"," ","u","p","l","o","a","d","s"," ","i","m","a","g","e","s"," ","o","r"," ","v","i","d","e","o","s">>,
         type |-> <<"u","s","e","r","_","a","c","t","i","o","n">>],
        [id |-> 4, name |-> <<"S","e","t"," ","M","e","t","a","d","a","t","a">>,
         description |-> <<"U","s","e","r"," ","a","d","d","s"," ","t","i","t","l","e",","," ","t","a","g","s",","," ","c","a","t","e","g","o","r","y">>,
         type |-> <<"u","s","e","r","_","i","n","p","u","t">>],
        [id |-> 5, name |-> <<"P","r","e","v","i","e","w"," ","C","o","n","t","e","n","t">>,
         description |-> <<"S","y","s","t","e","m"," ","r","e","n","d","e","r","s"," ","p","r","e","v","i","e","w">>,
         type |-> <<"d","i","s","p","l","a","y">>],
        [id |-> 6, name |-> <<"C","o","n","t","e","n","t"," ","V","a","l","i","d","a","t","i","o","n">>,
         description |-> <<"S","y","s","t","e","m"," ","c","h","e","c","k","s"," ","f","o","r"," ","r","e","q","u","i","r","e","d"," ","f","i","e","l","d","s">>,
         type |-> <<"s","y","s","t","e","m","_","c","h","e","c","k">>],
        [id |-> 7, name |-> <<"S","u","b","m","i","t"," ","f","o","r"," ","R","e","v","i","e","w">>,
         description |-> <<"C","o","n","t","e","n","t"," ","s","e","n","t"," ","f","o","r"," ","a","p","p","r","o","v","a","l">>,
         type |-> <<"w","o","r","k","f","l","o","w","_","a","c","t","i","o","n">>],
        [id |-> 8, name |-> <<"R","e","v","i","e","w"," ","D","e","c","i","s","i","o","n">>,
         description |-> <<"R","e","v","i","e","w","e","r"," ","a","p","p","r","o","v","e","s"," ","o","r"," ","r","e","q","u","e","s","t","s"," ","c","h","a","n","g","e","s">>,
         type |-> <<"d","e","c","i","s","i","o","n">>],
        [id |-> 9, name |-> <<"P","u","b","l","i","s","h"," ","C","o","n","t","e","n","t">>,
         description |-> <<"C","o","n","t","e","n","t"," ","g","o","e","s"," ","l","i","v","e">>,
         type |-> <<"s","y","s","t","e","m","_","a","c","t","i","o","n">>],
        [id |-> 10, name |-> <<"N","o","t","i","f","y"," ","S","u","b","s","c","r","i","b","e","r","s">>,
         description |-> <<"F","o","l","l","o","w","e","r","s"," ","n","o","t","i","f","i","e","d"," ","o","f"," ","n","e","w"," ","c","o","n","t","e","n","t">>,
         type |-> <<"n","o","t","i","f","i","c","a","t","i","o","n">>]
     >>)],
    [key |-> <<"w","o","r","k","f","l","o","w">>,
     value |-> Arr(<<
        [id |-> 1, name |-> <<"T","a","s","k"," ","C","r","e","a","t","i","o","n">>,
         description |-> <<"N","e","w"," ","t","a","s","k"," ","o","r"," ","r","e","q","u","e","s","t"," ","i","s"," ","c","r","e","a","t","e","d">>,
         type |-> <<"t","r","i","g","g","e","r">>],
        [id |-> 2, name |-> <<"I","n","i","t","i","a","l"," ","R","e","v","i","e","w">>,
         description |-> <<"F","i","r","s","t"," ","l","e","v","e","l"," ","r","e","v","i","e","w"," ","o","f"," ","t","h","e"," ","r","e","q","u","e","s","t">>,
         type |-> <<"r","e","v","i","e","w">>],
        [id |-> 3, name |-> <<"C","o","m","p","l","e","t","e","n","e","s","s"," ","C","h","e","c","k">>,
         description |-> <<"V","e","r","i","f","y"," ","a","l","l"," ","r","e","q","u","i","r","e","d"," ","i","n","f","o"," ","i","s"," ","p","r","e","s","e","n","t">>,
         type |-> <<"s","y","s","t","e","m","_","c","h","e","c","k">>],
        [id |-> 4, name |-> <<"A","s","s","i","g","n"," ","R","e","v","i","e","w","e","r">>,
         description |-> <<"R","o","u","t","e"," ","t","o"," ","a","p","p","r","o","p","r","i","a","t","e"," ","r","e","v","i","e","w","e","r">>,
         type |-> <<"s","y","s","t","e","m","_","a","c","t","i","o","n">>],
        [id |-> 5, name |-> <<"R","e","v","i","e","w"," ","P","r","o","c","e","s","s">>,
         description |-> <<"R","e","v","i","e","w","e","r"," ","e","x","a","m","i","n","e","s"," ","t","h","e"," ","r","e","q","u","e","s","t">>,
         type |-> <<"u","s","e","r","_","a","c","t","i","o","n">>],
        [id |-> 6, name |-> <<"A","p","p","r","o","v","a","l"," ","D","e","c","i","s","i","o","n">>,
         description |-> <<"A","p","p","r","o","v","e",","," ","r","e","j","e","c","t",","," ","o","r"," ","r","e","q","u","e","s","t"," ","c","h","a","n","g","e","s">>,
         type |-> <<"d","e","c","i","s","i","o","n">>],
        [id |-> 7, name |-> <<"H","a","n","d","l","e"," ","R","e","j","e","c","t","i","o","n">>,
         description |-> <<"P","r","o","c","e","s","s"," ","r","e","j","e","c","t","i","o","n"," ","w","i","t","h"," ","f","e","e","d","b","a","c","k">>,
         type |-> <<"c","o","n","d","i","t","i","o","n","a","l">>],
        [id |-> 8, name |-> <<"E","x","e","c","u","t","e"," ","A","p","p","r","o","v","a","l">>,
         description |-> <<"P","e","r","f","o","r","m"," ","t","h","e"," ","a","p","p","r","o","v","e","d"," ","a","c","t","i","o","n">>,
         type |-> <<"s","y","s","t","e","m","_","a","c","t","i","o","n">>],
        [id |-> 9, name |-> <<"A","u","d","i","t"," ","L","o","g">>,
         description |-> <<"R","e","c","o","r","d"," ","t","h","e"," ","c","o","m","p","l","e","t","e"," ","w","o","r","k","f","l","o","w"," ","t","r","a","i","l">>,
         type |-> <<"l","o","g","g","i","n","g">>],
        [id |-> 10, name |-> <<"N","o","t","i","f","y"," ","S","t","a","k","e","h","o","l","d","e","r","s">>,
         description |-> <<"I","n","f","o","r","m"," ","a","l","l"," ","p","a","r","t","i","e","s"," ","o","f"," ","o","u","t","c","o","m","e">>,
         type |-> <<"n","o","t","i","f","i","c","a","t","i","o","n">>]
     >>)],
    [key |-> <<"d","a","t","a">>,
     value |-> Arr(<<
        [id |-> 1, name |-> <<"S","e","l","e","c","t"," ","S","o","u","r","c","e">>,
         description |-> <<"C","h","o","o","s","e"," ","d","a","t","a"," ","s","o","u","r","c","e"," ","f","o","r"," ","o","p","e","r","a","t","i","o","n">>,
         type |-> <<"u","s","e","r","_","a","c","t","i","o","n">>],
        [id |-> 2, name |-> <<"C","o","n","f","i","g","u","r","e"," ","M","a","p","p","i","n","g">>,
         description |-> <<"D","e","f","i","n","e"," ","f","i","e","l","d"," ","m","a","p","p","i","n","g","s">>,
         type |-> <<"u","s","e","r","_","i","n","p","u","t">>],
        [id |-> 3, name |-> <<"V","a","l","i","d","a","t","e"," ","C","o","n","f","i","g","u","r","a","t","i","o","n">>,
         description |-> <<"S","y","s","t","e","m"," ","c","h","e","c","k","s"," ","c","o","n","f","i","g","u","r","a","t","i","o","n"," ","v","a","l","i","d","i","t","y">>,
         type |-> <<"s","y","s","t","e","m","_","c","h","e","c","k">>],
        [id |-> 4, name |-> <<"P","r","e","v","i","e","w"," ","D","a","t","a">>,
         description |-> <<"S","h","o","w"," ","s","a","m","p","l","e"," ","o","f"," ","d","a","t","a"," ","t","o"," ","b","e"," ","p","r","o","c","e","s","s","e","d">>,
         type |-> <<"d","i","s","p","l","a","y">>],
        [id |-> 5, name |-> <<"C","o","n","f","i","r","m"," ","O","p","e","r","a","t","i","o","n">>,
         description |-> <<"U","s","e","r"," ","c","o","n","f","i","r","m","s"," ","t","o"," ","p","r","o","c","e","e","d">>,
         type |-> <<"u","s","e","r","_","a","c","t","i","o","n">>],
        [id |-> 6, name |-> <<"E","x","t","r","a","c","t"," ","D","a","t","a">>,
         description |-> <<"R","e","a","d"," ","d","a","t","a"," ","f","r","o","m"," ","s","o","u","r","c","e">>,
         type |-> <<"d","a","t","a","_","o","p","e","r","a","t","i","o","n">>],
        [id |-> 7, name |-> <<"T","r","a","n","s","f","o","r","m"," ","D","a","t","a">>,
         description |-> <<"A","p","p","l","y"," ","t","r","a","n","s","f","o","r","m","a","t","i","o","n","s"," ","a","n","d"," ","m","a","p","p","i","n","g","s">>,
         type |-> <<"d","a","t","a","_","o","p","e","r","a","t","i","o","n">>],
        [id |-> 8, name |-> <<"V","a","l","i","d","a","t","e"," ","D","a","t","a">>,
         description |-> <<"C","h","e","c","k"," ","d","a","t","a"," ","i","n","t","e","g","r","i","t","y"," ","a","n","d"," ","f","o","r","m","a","t">>,
         type |-> <<"s","y","s","t","e","m","_","c","h","e","c","k">>],
        [id |-> 9, name |-> <<"L","o","a","d"," ","D","a","t","a">>,
         description |-> <<"W","r","i","t","e"," ","d","a","t","a"," ","t","o"," ","d","e","s","t","i","n","a","t","i","o","n">>,
         type |-> <<"d","a","t","a","_","o","p","e","r","a","t","i","o","n">>],
        [id |-> 10, name |-> <<"G","e","n","e","r","a","t","e"," ","R","e","p","o","r","t">>,
         description |-> <<"C","r","e","a","t","e"," ","o","p","e","r","a","t","i","o","n"," ","s","u","m","m","a","r","y"," ","r","e","p","o","r","t">>,
         type |-> <<"s","y","s","t","e","m","_","a","c","t","i","o","n">>]
     >>)],
    [key |-> <<"n","o","t","i","f","i","c","a","t","i","o","n">>,
     value |-> Arr(<<
        [id |-> 1, name |-> <<"T","r","i","g","g","e","r"," ","E","v","e","n","t">>,
         description |-> <<"E","v","e","n","t"," ","o","c","c","u","r","s"," ","t","h","a","t"," ","r","e","q","u","i","r","e","s"," ","n","o","t","i","f","i","c","a","t","i","o","n">>,
         type |-> <<"t","r","i","g","g","e","r">>],
        [id |-> 2, name |-> <<"F","e","t","c","h"," ","R","e","c","i","p","i","e","n","t","s">>,
         description |-> <<"Q","u","e","r","y"," ","n","o","t","i","f","i","c","a","t","i","o","n"," ","p","r","e","f","e","r","e","n","c","e","s">>,
         type |-> <<"d","a","t","a","b","a","s","e","_","q","u","e","r","y">>],
        [id |-> 3, name |-> <<"F","i","l","t","e","r"," ","R","e","c","i","p","i","e","n","t","s">>,
         description |-> <<"A","p","p","l","y"," ","o","p","t","-","o","u","t"," ","a","n","d"," ","p","r","e","f","e","r","e","n","c","e","s">>,
         type |-> <<"s","y","s","t","e","m","_","c","h","e","c","k">>],
        [id |-> 4, name |-> <<"P","r","e","p","a","r","e"," ","C","o","n","t","e","n","t">>,
         description |-> <<"G","e","n","e","r","a","t","e"," ","n","o","t","i","f","i","c","a","t","i","o","n"," ","c","o","n","t","e","n","t">>,
         type |-> <<"s","y","s","t","e","m","_","a","c","t","i","o","n">>],
        [id |-> 5, name |-> <<"C","h","a","n","n","e","l"," ","S","e","l","e","c","t","i","o","n">>,
         description |-> <<"D","e","t","e","r","m","i","n","e"," ","d","e","l","i","v","e","r","y"," ","c","h","a","n","n","e","l">>,
         type |-> <<"d","e","c","i","s","i","o","n">>],
        [id |-> 6, name |-> <<"Q","u","e","u","e"," ","N","o","t","i","f","i","c","a","t","i","o","n">>,
         description |-> <<"A","d","d"," ","t","o"," ","n","o","t","i","f","i","c","a","t","i","o","n"," ","q","u","e","u","e">>,
         type |-> <<"s","y","s","t","e","m","_","a","c","t","i","o","n">>],
        [id |-> 7, name |-> <<"S","e","n","d"," ","N","o","t","i","f","i","c","a","t","i","o","n">>,
         description |-> <<"D","i","s","p","a","t","c","h"," ","v","i","a"," ","s","e","l","e","c","t","e","d"," ","c","h","a","n","n","e","l">>,
         type |-> <<"i","n","t","e","g","r","a","t","i","o","n">>],
        [id |-> 8, name |-> <<"T","r","a","c","k"," ","D","e","l","i","v","e","r","y">>,
         description |-> <<"M","o","n","i","t","o","r"," ","d","e","l","i","v","e","r","y"," ","s","t","a","t","u","s">>,
         type |-> <<"l","o","g","g","i","n","g">>],
        [id |-> 9, name |-> <<"H","a","n","d","l","e"," ","F","a","i","l","u","r","e","s">>,
         description |-> <<"R","e","t","r","y"," ","o","r"," ","e","s","c","a","l","a","t","e"," ","f","a","i","l","e","d"," ","s","e","n","d","s">>,
         type |-> <<"e","r","r","o","r","_","h","a","n","d","l","i","n","g">>]
     >>)],
    [key |-> <<"g","e","n","e","r","a","l">>,
     value |-> Arr(<<
        [id |-> 1, name |-> <<"I","n","i","t","i","a","l","i","z","e"," ","P","r","o","c","e","s","s">>,
         description |-> <<"S","t","a","r","t"," ","t","h","e"," ","w","o","r","k","f","l","o","w"," ","p","r","o","c","e","s","s">>,
         type |-> <<"t","r","i","g","g","e","r">>],
        [id |-> 2, name |-> <<"G","a","t","h","e","r"," ","I","n","p","u","t">>,
         description |-> <<"C","o","l","l","e","c","t"," ","r","e","q","u","i","r","e","d"," ","i","n","f","o","r","m","a","t","i","o","n">>,
         type |-> <<"u","s","e","r","_","i","n","p","u","t">>],
        [id |-> 3, name |-> <<"V","a","l","i","d","a","t","e"," ","I","n","p","u","t">>,
         description |-> <<"C","h","e","c","k"," ","i","n","p","u","t"," ","c","o","m","p","l","e","t","e","n","e","s","s"," ","a","n","d"," ","f","o","r","m","a","t">>,
         type |-> <<"s","y","s","t","e","m","_","c","h","e","c","k">>],
        [id |-> 4, name |-> <<"P","r","o","c","e","s","s"," ","R","e","q","u","e","s","t">>,
         description |-> <<"E","x","e","c","u","t","e"," ","m","a","i","n"," ","b","u","s","i","n","e","s","s"," ","l","o","g","i","c">>,
         type |-> <<"s","y","s","t","e","m","_","a","c","t","i","o","n">>],
        [id |-> 5, name |-> <<"D","e","c","i","s","i","o","n"," ","P","o","i","n","t">>,
         description |-> <<"E","v","a","l","u","a","t","e"," ","c","o","n","d","i","t","i","o","n","s"," ","f","o","r"," ","n","e","x","t"," ","s","t","e","p">>,
         type |-> <<"d","e","c","i","s","i","o","n">>],
        [id |-> 6, name |-> <<"E","x","e","c","u","t","e"," ","A","c","t","i","o","n">>,
         description |-> <<"P","e","r","f","o","r","m"," ","t","h","e"," ","r","e","q","u","i","r","e","d"," ","a","c","t","i","o","n">>,
         type |-> <<"s","y","s","t","e","m","_","a","c","t","i","o","n">>],
        [id |-> 7, name |-> <<"S","t","o","r","e"," ","R","e","s","u","l","t","s">>,
         description |-> <<"S","a","v","e"," ","o","u","t","c","o","m","e"," ","t","o"," ","d","a","t","a","b","a","s","e">>,
         type |-> <<"d","a","t","a","b","a","s","e","_","w","r","i","t","e">>],
        [id |-> 8, name |-> <<"G","e","n","e","r","a","t","e"," ","R","e","s","p","o","n","s","e">>,
         description |-> <<"P","r","e","p","a","r","e"," ","r","e","s","p","o","n","s","e"," ","f","o","r"," ","u","s","e","r">>,
         type |-> <<"s","y","s","t","e","m","_","a","c","t","i","o","n">>],
        [id |-> 9, name |-> <<"S","e","n","d"," ","N","o","t","i","f","i","c","a","t","i","o","n","s">>,
         description |-> <<"A","l","e","r","t"," ","r","e","l","e","v","a","n","t"," ","p","a","r","t","i","e","s">>,
         type |-> <<"n","o","t","i","f","i","c","a","t","i","o","n">>],
        [id |-> 10, name |-> <<"C","o","m","p","l","e","t","e"," ","P","r","o","c","e","s","s">>,
         description |-> <<"F","i","n","a","l","i","z","e"," ","a","n","d"," ","c","l","o","s","e"," ","t","h","e"," ","w","o","r","k","f","l","o","w">>,
         type |-> <<"e","n","d">>]
     >>)]
  >>

\* the templates object without its data member: the lookup falls back
generateStepsForType_NoDataTemplate(type, description) ==
  LET found == IF type = <<"d","a","t","a">> THEN Undefined ELSE Get(templates, type)
  IN  IF Falsy(found) THEN Own(templates, <<"g","e","n","e","r","a","l">>) ELSE found

\* a template whose first step carries a misspelt type
generateStepsForType_Typo(type, description) ==
  LET found == Get(templates, type)
      chosen == IF Falsy(found) THEN Own(templates, <<"g","e","n","e","r","a","l">>) ELSE found
  IN  IF chosen.t # "array" THEN chosen
      ELSE Arr([k \in 1..Len(chosen.items) |->
                  IF k = 1 THEN [chosen.items[k] EXCEPT !.type = <<"u","s","e","r","-","a","c","t","i","o","n">>]
                  ELSE chosen.items[k]])

generateStepsForType(type, description) ==
  LET found == Get(templates, type)
  IN  IF Falsy(found) THEN Own(templates, <<"g","e","n","e","r","a","l">>) ELSE found

summaries ==
  <<
    [key |-> <<"e","c","o","m","m","e","r","c","e">>,
     value |-> Str(<<"T","h","i","s"," ","e","-","c","o","m","m","e","r","c","e"," ","w","o","r","k","f","l","o","w"," ","h","a","n","d","l","e","s"," ","t","h","e"," ","c","o","m","p","l","e","t","e"," ","p","u","r","c","h","a","s","e"," ","j","o","u","r","n","e","y"," ","f","r","o","m"," ","p","r","o","d","u","c","t"," ","b","r","o","w","s","i","n","g"," ","t","o"," ","o","r","d","e","r"," ","c","o","n","f","i","r","m","a","t","i","o","n","."," ","I","t"," ","i","n","c","l","u","d","e","s"," ","c","a","r","t"," ","m","a","n","a","g","e","m","e","n","t",","," ","p","a","y","m","e","n","t"," ","p","r","o","c","e","s","s","i","n","g",","," ","a","n","d"," ","i","n","v","e","n","t","o","r","y"," ","u","p","d","a","t","e","s"," ","t","o"," ","e","n","s","u","r","e"," ","a"," ","s","m","o","o","t","h"," ","s","h","o","p","p","i","n","g"," ","e","x","p","e","r","i","e","n","c","e",".">>)],
    [key |-> <<"a","u","t","h">>,
     value |-> Str(<<"T","h","i","s"," ","a","u","t","h","e","n","t","i","c","a","t","i","o","n"," ","w","o","r","k","f","l","o","w"," ","s","e","c","u","r","e","l","y"," ","h","a","n","d","l","e","s"," ","u","s","e","r"," ","l","o","g","i","n"," ","w","i","t","h"," ","i","n","p","u","t"," ","v","a","l","i","d","a","t","i","o","n",","," ","c","r","e","d","e","n","t","i","a","l"," ","v","e","r","i","f","i","c","a","t","i","o","n",","," ","a","n","d"," ","s","e","s","s","i","o","n"," ","m","a","n","a","g","e","m","e","n","t","."," ","I","t"," ","i","n","c","l","u","d","e","s"," ","s","e","c","u","r","i","t","y"," ","l","o","g","g","i","n","g"," ","f","o","r"," ","a","u","d","i","t"," ","p","u","r","p","o","s","e","s",".">>)],
    [key |-> <<"b","o","o","k","i","n","g">>,
     value |-> Str(<<"T","h","i","s"," ","b","o","o","k","i","n","g"," ","w","o","r","k","f","l","o","w"," ","m","a","n","a","g","e","s"," ","a","p","p","o","i","n","t","m","e","n","t"," ","s","c","h","e","d","u","l","i","n","g"," ","f","r","o","m"," ","s","e","r","v","i","c","e"," ","s","e","l","e","c","t","i","o","n"," ","t","o"," ","c","o","n","f","i","r","m","a","t","i","o","n","."," ","I","t"," ","i","n","c","l","u","d","e","s"," ","a","v","a","i","l","a","b","i","l","i","t","y"," ","c","h","e","c","k","i","n","g",","," ","s","l","o","t"," ","s","e","l","e","c","t","i","o","n",","," ","a","n","d"," ","c","a","l","e","n","d","a","r"," ","i","n","t","e","g","r","a","t","i","o","n"," ","c","a","p","a","b","i","l","i","t","i","e","s",".">>)],
    [key |-> <<"s","u","p","p","o","r","t">>,
     value |-> Str(<<"T","h","i","s"," ","c","u","s","t","o","m","e","r"," ","s","u","p","p","o","r","t"," ","w","o","r","k","f","l","o","w"," ","h","a","n","d","l","e","s"," ","t","i","c","k","e","t"," ","c","r","e","a","t","i","o","n"," ","a","n","d"," ","r","o","u","t","i","n","g","."," ","I","t"," ","u","s","e","s"," ","A","I","-","p","o","w","e","r","e","d"," ","c","a","t","e","g","o","r","i","z","a","t","i","o","n"," ","a","n","d"," ","p","r","i","o","r","i","t","y"," ","a","s","s","i","g","n","m","e","n","t"," ","t","o"," ","e","n","s","u","r","e"," ","e","f","f","i","c","i","e","n","t"," ","i","s","s","u","e"," ","r","e","s","o","l","u","t","i","o","n",".">>)],
    [key |-> <<"c","o","n","t","e","n","t">>,
     value |-> Str(<<"T","h","i","s"," ","c","o","n","t","e","n","t"," ","m","a","n","a","g","e","m","e","n","t"," ","w","o","r","k","f","l","o","w"," ","c","o","v","e","r","s"," ","t","h","e"," ","c","o","m","p","l","e","t","e"," ","p","u","b","l","i","s","h","i","n","g"," ","l","i","f","e","c","y","c","l","e"," ","f","r","o","m"," ","d","r","a","f","t"," ","c","r","e","a","t","i","o","n"," ","t","o"," ","p","u","b","l","i","c","a","t","i","o","n","."," ","I","t"," ","i","n","c","l","u","d","e","s"," ","r","e","v","i","e","w"," ","p","r","o","c","e","s","s","e","s"," ","a","n","d"," ","s","u","b","s","c","r","i","b","e","r"," ","n","o","t","i","f","i","c","a","t","i","o","n","s",".">>)],
    [key |-> <<"w","o","r","k","f","l","o","w">>,
     value |-> Str(<<"T","h","i","s"," ","a","p","p","r","o","v","a","l"," ","w","o","r","k","f","l","o","w"," ","m","a","n","a","g","e","s"," ","m","u","l","t","i","-","l","e","v","e","l"," ","r","e","v","i","e","w"," ","p","r","o","c","e","s","s","e","s"," ","w","i","t","h"," ","p","r","o","p","e","r"," ","r","o","u","t","i","n","g",","," ","d","e","c","i","s","i","o","n"," ","h","a","n","d","l","i","n","g",","," ","a","n","d"," ","a","u","d","i","t"," ","l","o","g","g","i","n","g"," ","f","o","r"," ","c","o","m","p","l","i","a","n","c","e",".">>)],
    [key |-> <<"d","a","t","a">>,
     value |-> Str(<<"T","h","i","s"," ","d","a","t","a"," ","o","p","e","r","a","t","i","o","n"," ","w","o","r","k","f","l","o","w"," ","h","a","n","d","l","e","s"," ","E","T","L"," ","(","E","x","t","r","a","c","t",","," ","T","r","a","n","s","f","o","r","m",","," ","L","o","a","d",")"," ","p","r","o","c","e","s","s","e","s"," ","w","i","t","h"," ","v","a","l","i","d","a","t","i","o","n",","," ","p","r","e","v","i","e","w",","," ","a","n","d"," ","c","o","m","p","r","e","h","e","n","s","i","v","e"," ","r","e","p","o","r","t","i","n","g",".">>)],
    [key |-> <<"n","o","t","i","f","i","c","a","t","i","o","n">>,
     value |-> Str(<<"T","h","i","s"," ","n","o","t","i","f","i","c","a","t","i","o","n"," ","w","o","r","k","f","l","o","w"," ","m","a","n","a","g","e","s"," ","m","u","l","t","i","-","c","h","a","n","n","e","l"," ","m","e","s","s","a","g","e"," ","d","e","l","i","v","e","r","y"," ","w","i","t","h"," ","p","r","e","f","e","r","e","n","c","e"," ","h","a","n","d","l","i","n","g",","," ","d","e","l","i","v","e","r","y"," ","t","r","a","c","k","i","n","g",","," ","a","n","d"," ","f","a","i","l","u","r","e"," ","r","e","c","o","v","e","r","y",".">>)],
    [key |-> <<"g","e","n","e","r","a","l">>,
     value |-> Str(<<"T","h","i","s"," ","w","o","r","k","f","l","o","w"," ","o","u","t","l","i","n","e","s"," ","a"," ","s","t","r","u","c","t","u","r","e","d"," ","p","r","o","c","e","s","s"," ","t","o"," ","a","c","c","o","m","p","l","i","s","h"," ","t","h","e"," ","d","e","s","c","r","i","b","e","d"," ","s","c","e","n","a","r","i","o","."," ","I","t"," ","i","n","c","l","u","d","e","s"," ","i","n","p","u","t"," ","h","a","n","d","l","i","n","g",","," ","p","r","o","c","e","s","s","i","n","g"," ","l","o","g","i","c",","," ","a","n","d"," ","a","p","p","r","o","p","r","i","a","t","e"," ","n","o","t","i","f","i","c","a","t","i","o","n","s",".">>)]
  >>

generateSummary(type, description) ==
  LET found == Get(summaries, type)
  IN  IF Falsy(found) THEN Own(summaries, <<"g","e","n","e","r","a","l">>) ELSE found

\* the summary stamped with the clock reading
mockAIGenerate_TimedSummary(description, now) ==
  LET analysis == analyzeDescription(description)
      summary == generateSummary(analysis.type, description)
  IN  [workflow |-> generateStepsForType(analysis.type, description),
       summary |-> IF summary.t = "string"
                   THEN Str(summary.chars \o <<" ","@">> \o NumToString(now))
                   ELSE summary,
       metadata |-> [detectedType |-> analysis.type,
                     generatedAt |-> now,
                     aiProvider |-> <<"m","o","c","k">>]]

\* the body of mockAIGenerate after its await; generatedAt is the clock reading
mockAIGenerate(description, now) ==
  LET analysis == analyzeDescription(description)
  IN  [workflow |-> generateStepsForType(analysis.type, description),
       summary |-> generateSummary(analysis.type, description),
       metadata |-> [detectedType |-> analysis.type,
                     generatedAt |-> now,
                     aiProvider |-> <<"m","o","c","k">>]]

----------------------------------------------------------------------------
(* utils/diagramGenerator.js                                               *)

Shape(open, close) == [t |-> "shape", open |-> open, close |-> close]

shapes ==
  <<
    [key |-> <<"t","r","i","g","g","e","r">>,         value |-> Shape(<<"(","[">>, <<"]",")">>)],
    [key |-> <<"e","n","d">>,             value |-> Shape(<<"(","[">>, <<"]",")">>)],
    [key |-> <<"d","e","c","i","s","i","o","n">>,        value |-> Shape(<<"{">>, <<"}">>)],
    [key |-> <<"u","s","e","r","_","a","c","t","i","o","n">>,     value |-> Shape(<<"[">>, <<"]">>)],
    [key |-> <<"u","s","e","r","_","i","n","p","u","t">>,      value |-> Shape(<<"[","/">>, <<"/","]">>)],
    [key |-> <<"s","y","s","t","e","m","_","a","c","t","i","o","n">>,   value |-> Shape(<<"[","[">>, <<"]","]">>)],
    [key |-> <<"s","y","s","t","e","m","_","c","h","e","c","k">>,    value |-> Shape(<<"{","{">>, <<"}","}">>)],
    [key |-> <<"d","a","t","a","b","a","s","e","_","q","u","e","r","y">>,  value |-> Shape(<<"[","(">>, <<")","]">>)],
    [key |-> <<"d","a","t","a","b","a","s","e","_","w","r","i","t","e">>,  value |-> Shape(<<"[","(">>, <<")","]">>)],
    [key |-> <<"n","o","t","i","f","i","c","a","t","i","o","n">>,    value |-> Shape(<<">">>, <<"]">>)],
    [key |-> <<"n","a","v","i","g","a","t","i","o","n">>,      value |-> Shape(<<"[">>, <<"]">>)],
    [key |-> <<"d","i","s","p","l","a","y">>,         value |-> Shape(<<"[">>, <<"]">>)],
    [key |-> <<"l","o","g","g","i","n","g">>,         value |-> Shape(<<"[","(">>, <<")","]">>)],
    [key |-> <<"i","n","t","e","g","r","a","t","i","o","n">>,     value |-> Shape(<<"[","[">>, <<"]","]">>)],
    [key |-> <<"r","e","v","i","e","w">>,          value |-> Shape(<<"[">>, <<"]">>)],
    [key |-> <<"w","o","r","k","f","l","o","w","_","a","c","t","i","o","n">>, value |-> Shape(<<"[","[">>, <<"]","]">>)],
    [key |-> <<"c","o","n","d","i","t","i","o","n","a","l">>,     value |-> Shape(<<"{">>, <<"}">>)],
    [key |-> <<"a","i","_","p","r","o","c","e","s","s">>,      value |-> Shape(<<"[","[">>, <<"]","]">>)],
    [key |-> <<"d","a","t","a","_","o","p","e","r","a","t","i","o","n">>,  value |-> Shape(<<"[","[">>, <<"]","]">>)],
    [key |-> <<"e","r","r","o","r","_","h","a","n","d","l","i","n","g">>,  value |-> Shape(<<"{">>, <<"}">>)]
  >>

getNodeShape(type) ==
  LET found == Get(shapes, type)
  IN  IF Falsy(found) THEN Shape(<<"[">>, <<"]">>) ELSE found

\* `${shape.open}`, `${shape.close}`: a value without the member prints undefined
ShapeOpen(shape) == IF shape.t = "shape" THEN shape.open ELSE <<"u","n","d","e","f","i","n","e","d">>

ShapeClose(shape) == IF shape.t = "shape" THEN shape.close ELSE <<"u","n","d","e","f","i","n","e","d">>

nodeId(id) == <<"s","t","e","p">> \o NumToString(id)

\* text.replace(/[chars]/g, by)
RECURSIVE ReplaceAll(_, _, _)
ReplaceAll(text, chars, by) ==
  IF text = <<>> THEN <<>>
  ELSE (IF Head(text) \in chars THEN by ELSE <<Head(text)>>)
       \o ReplaceAll(Tail(text), chars, by)

\* text.replace(/[chars]/, by), the g flag left out
RECURSIVE ReplaceFirst(_, _, _)
ReplaceFirst(text, chars, by) ==
  IF text = <<>> THEN <<>>
  ELSE IF Head(text) \in chars THEN by \o Tail(text)
  ELSE <<Head(text)>> \o ReplaceFirst(Tail(text), chars, by)

\* the replaces written without the g flag
escapeLabel_FirstOnly(text) ==
  ReplaceFirst(
    ReplaceFirst(
      ReplaceFirst(
        ReplaceFirst(text, {"\""}, <<"'">>),
        {"[", "]", "{", "}", "(", ")"}, <<>>),
      {">"}, <<"-",">">>),
    {"<"}, <<"<","-">>)

\* the first replace left out
escapeLabel_QuotesKept(text) ==
  ReplaceAll(
    ReplaceAll(
      ReplaceAll(text, {"[", "]", "{", "}", "(", ")"}, <<>>),
      {">"}, <<"-",">">>),
    {"<"}, <<"<","-">>)

\* the character class of the second replace written without the parentheses
escapeLabel_NoParens(text) ==
  ReplaceAll(
    ReplaceAll(
      ReplaceAll(
        ReplaceAll(text, {"\""}, <<"'">>),
        {"[", "]", "{", "}"}, <<>>),
      {">"}, <<"-",">">>),
    {"<"}, <<"<","-">>)

escapeLabel(text) ==
  ReplaceAll(
    ReplaceAll(
      ReplaceAll(
        ReplaceAll(text, {"\""}, <<"'">>),
        {"[", "]", "{", "}", "(", ")"}, <<>>),
      {">"}, <<"-",">">>),
    {"<"}, <<"<","-">>)

\* !workflow || workflow.length === 0
NoSteps(workflow) ==
  \/ Falsy(workflow)
  \/ workflow.t = "array" /\ Len(workflow.items) = 0

StyleLines ==
  << <<" "," ","%","%"," ","S","t","y","l","e"," ","d","e","f","i","n","i","t","i","o","n","s">>,
     <<" "," ","c","l","a","s","s","D","e","f"," ","t","r","i","g","g","e","r"," ","f","i","l","l",":","#","e","1","f","5","f","e",",","s","t","r","o","k","e",":","#","0","1","5","7","9","b">>,
     <<" "," ","c","l","a","s","s","D","e","f"," ","d","e","c","i","s","i","o","n"," ","f","i","l","l",":","#","f","f","f","3","e","0",",","s","t","r","o","k","e",":","#","e","6","5","1","0","0">>,
     <<" "," ","c","l","a","s","s","D","e","f"," ","a","c","t","i","o","n"," ","f","i","l","l",":","#","e","8","f","5","e","9",",","s","t","r","o","k","e",":","#","1","b","5","e","2","0">>,
     <<" "," ","c","l","a","s","s","D","e","f"," ","n","o","t","i","f","i","c","a","t","i","o","n"," ","f","i","l","l",":","#","f","c","e","4","e","c",",","s","t","r","o","k","e",":","#","8","8","0","e","4","f">>,
     <<" "," ","c","l","a","s","s","D","e","f"," ","d","a","t","a","b","a","s","e"," ","f","i","l","l",":","#","f","3","e","5","f","5",",","s","t","r","o","k","e",":","#","4","a","1","4","8","c">>,
     <<" "," ","c","l","a","s","s","D","e","f"," ","s","y","s","t","e","m"," ","f","i","l","l",":","#","e","3","f","2","f","d",",","s","t","r","o","k","e",":","#","0","d","4","7","a","1">>,
     <<>> >>

NodeLine(step) ==
  LET shape == getNodeShape(step.type)
      label == escapeLabel(step.name)
  IN  <<" "," ">> \o nodeId(step.id) \o ShapeOpen(shape) \o <<"\"">> \o label \o <<"\"">>
      \o ShapeClose(shape)

NodeLines(steps) == [k \in 1..Len(steps) |-> NodeLine(steps[k])]

IsDecision(step) == step.type = <<"d","e","c","i","s","i","o","n">> \/ step.type = <<"c","o","n","d","i","t","i","o","n","a","l">>

\* a decision treated like any other step: no Yes and No branches
ConnectionLinesAt_NoBranch(steps, i) ==
  << <<" "," ">> \o nodeId(steps[i + 1].id) \o <<" ","-","-",">"," ">> \o nodeId(steps[i + 2].id) >>

\* the lines pushed by iteration i of the connections loop (i counts from 0)
ConnectionLinesAt(steps, i) ==
  LET current == steps[i + 1]
      next == steps[i + 2]
  IN  IF IsDecision(current)
      THEN << <<" "," ">> \o nodeId(current.id) \o <<" ","-","-",">","|","Y","e","s","|"," ">> \o nodeId(next.id) >>
           \o (IF i + 2 < Len(steps)
               THEN << <<" "," ">> \o nodeId(current.id) \o <<" ","-",".","-",">","|","N","o","|"," ">>
                       \o nodeId(steps[i + 3].id) >>
               ELSE <<>>)
      ELSE << <<" "," ">> \o nodeId(current.id) \o <<" ","-","-",">"," ">> \o nodeId(next.id) >>

\* for (let i = 0; i < workflow.length - 1; i++)
RECURSIVE ConnectionLines(_, _)
ConnectionLines(steps, i) ==
  IF i < Len(steps) - 1
  THEN ConnectionLinesAt(steps, i) \o ConnectionLines(steps, i + 1)
  ELSE <<>>

\* the test for system placed before the test for database
StyleClass_SystemFirst(step) ==
  IF step.type = <<"t","r","i","g","g","e","r">> \/ step.type = <<"e","n","d">> THEN <<"t","r","i","g","g","e","r">>
  ELSE IF step.type = <<"d","e","c","i","s","i","o","n">> \/ step.type = <<"c","o","n","d","i","t","i","o","n","a","l">> THEN <<"d","e","c","i","s","i","o","n">>
  ELSE IF step.type = <<"n","o","t","i","f","i","c","a","t","i","o","n">> THEN <<"n","o","t","i","f","i","c","a","t","i","o","n">>
  ELSE IF Includes(step.type, <<"s","y","s","t","e","m">>) THEN <<"s","y","s","t","e","m">>
  ELSE IF Includes(step.type, <<"d","a","t","a","b","a","s","e">>) THEN <<"d","a","t","a","b","a","s","e">>
  ELSE <<"a","c","t","i","o","n">>

StyleClass(step) ==
  IF step.type = <<"t","r","i","g","g","e","r">> \/ step.type = <<"e","n","d">> THEN <<"t","r","i","g","g","e","r">>
  ELSE IF step.type = <<"d","e","c","i","s","i","o","n">> \/ step.type = <<"c","o","n","d","i","t","i","o","n","a","l">> THEN <<"d","e","c","i","s","i","o","n">>
  ELSE IF step.type = <<"n","o","t","i","f","i","c","a","t","i","o","n">> THEN <<"n","o","t","i","f","i","c","a","t","i","o","n">>
  ELSE IF Includes(step.type, <<"d","a","t","a","b","a","s","e">>) THEN <<"d","a","t","a","b","a","s","e">>
  ELSE IF Includes(step.type, <<"s","y","s","t","e","m">>) THEN <<"s","y","s","t","e","m">>
  ELSE <<"a","c","t","i","o","n">>

ClassLines(steps) ==
  [k \in 1..Len(steps) |->
     <<" "," ","c","l","a","s","s"," ">> \o nodeId(steps[k].id) \o <<" ">> \o StyleClass(steps[k])]

DiagramLines(steps) ==
  << <<"g","r","a","p","h"," ","T","D">> >>
  \o StyleLines
  \o << <<" "," ","%","%"," ","N","o","d","e","s">> >>
  \o NodeLines(steps)
  \o << <<>>, <<" "," ","%","%"," ","C","o","n","n","e","c","t","i","o","n","s">> >>
  \o ConnectionLines(steps, 0)
  \o << <<>>, <<" "," ","%","%"," ","A","p","p","l","y"," ","s","t","y","l","e","s">> >>
  \o ClassLines(steps)

\* the guard for the empty workflow left out
generateMermaidDiagram_NoEmptyCase(workflow) ==
  Join(DiagramLines(IF workflow.t = "array" THEN workflow.items ELSE <<>>), <<"\n">>)

generateMermaidDiagram(workflow) ==
  IF NoSteps(workflow) THEN <<"g","r","a","p","h"," ","T","D","\n"," "," ","e","m","p","t","y","[","N","o"," ","w","o","r","k","f","l","o","w"," ","s","t","e","p","s","]">>
  ELSE Join(DiagramLines(workflow.items), <<"\n">>)

\* the labels escaped in place: step.name = escapeLabel(step.name)
WorkflowAfterDiagram_LabelsEscaped(workflow) ==
  IF NoSteps(workflow) THEN workflow
  ELSE Arr([k \in 1..Len(workflow.items) |->
              [workflow.items[k] EXCEPT !.name = escapeLabel(@)]])

\* The array passed to generateMermaidDiagram as the call leaves it: the
\* function reads workflow.length, workflow[i] and the members id, name and
\* type of the steps, pushes to its own lines array only, and assigns to no
\* member of the array or of a step.
WorkflowAfterDiagram(workflow) == workflow

----------------------------------------------------------------------------
(* utils/schemaGenerator.js                                                *)

\* the chain of if statements of extractEntities, in source order
entityRules ==
  << [keywords |-> <<<<"u","s","e","r">>, <<"c","r","e","d","e","n","t","i","a","l">>>>,                       entity |-> <<"U","s","e","r">>],
     [keywords |-> <<<<"p","r","o","d","u","c","t">>, <<"i","t","e","m">>>>,                          entity |-> <<"P","r","o","d","u","c","t">>],
     [keywords |-> <<<<"o","r","d","e","r">>, <<"p","u","r","c","h","a","s","e">>>>,                        entity |-> <<"O","r","d","e","r">>],
     [keywords |-> <<<<"c","a","r","t">>>>,                                       entity |-> <<"C","a","r","t">>],
     [keywords |-> <<<<"p","a","y","m","e","n","t">>>>,                                    entity |-> <<"P","a","y","m","e","n","t">>],
     [keywords |-> <<<<"t","i","c","k","e","t">>, <<"i","s","s","u","e">>>>,                          entity |-> <<"T","i","c","k","e","t">>],
     [keywords |-> <<<<"b","o","o","k","i","n","g">>, <<"r","e","s","e","r","v","a","t","i","o","n">>, <<"a","p","p","o","i","n","t","m","e","n","t">>>>,  entity |-> <<"B","o","o","k","i","n","g">>],
     [keywords |-> <<<<"c","o","n","t","e","n","t">>, <<"p","o","s","t">>, <<"a","r","t","i","c","l","e">>>>,             entity |-> <<"C","o","n","t","e","n","t">>],
     [keywords |-> <<<<"n","o","t","i","f","i","c","a","t","i","o","n">>, <<"a","l","e","r","t">>>>,                    entity |-> <<"N","o","t","i","f","i","c","a","t","i","o","n">>],
     [keywords |-> <<<<"s","e","s","s","i","o","n">>, <<"t","o","k","e","n">>>>,                         entity |-> <<"S","e","s","s","i","o","n">>],
     [keywords |-> <<<<"t","a","s","k">>, <<"w","o","r","k","f","l","o","w">>>>,                         entity |-> <<"T","a","s","k">>] >>

\* only the first includes of each if condition evaluated
FiredRules_FirstKeyword(text) ==
  SelectSeq(entityRules, LAMBDA rule : Includes(text, rule.keywords[1]))

\* the rules whose if condition holds for one step's text, in source order
FiredRules(text) ==
  SelectSeq(entityRules,
            LAMBDA rule : \E k \in 1..Len(rule.keywords) : Includes(text, rule.keywords[k]))

\* the description left out of the text searched
StepText_NameOnly(step) == toLowerCase(step.name)

\* `${step.name} ${step.description}`.toLowerCase()
StepText(step) == toLowerCase(step.name \o <<" ">> \o step.description)

\* one forEach callback: entities.add(entity) for every fired rule, on a Set
\* kept in insertion order (add leaves a member where it is)
AddStep(entities, step) ==
  LET fresh == SelectSeq(FiredRules(StepText(step)),
                         LAMBDA rule : \A k \in 1..Len(entities) : entities[k] # rule.entity)
  IN  entities \o [k \in 1..Len(fresh) |-> fresh[k].entity]

\* workflow.forEach(step => ...) over the first s steps
RECURSIVE ExtractUpTo(_, _)
ExtractUpTo(steps, s) ==
  IF s = 0 THEN <<>> ELSE AddStep(ExtractUpTo(steps, s - 1), steps[s])

\* the Set returned, as the sequence of its members in insertion order
extractEntities(workflow) ==
  LET entities == ExtractUpTo(workflow.items, Len(workflow.items))
  IN  IF Len(entities) = 0 THEN << <<"R","e","c","o","r","d">> >> ELSE entities

schemas ==
  <<
    [key |-> <<"U","s","e","r">>,
     value |->
       [t |-> "object",
        type |-> <<"o","b","j","e","c","t">>,
        properties |-> <<
          [key |-> <<"i","d">>,
           value |-> [type |-> <<"s","t","r","i","n","g">>, format |-> <<"u","u","i","d">>, description |-> <<"U","n","i","q","u","e"," ","u","s","e","r"," ","i","d","e","n","t","i","f","i","e","r">>]],
          [key |-> <<"e","m","a","i","l">>,
           value |-> [type |-> <<"s","t","r","i","n","g">>, format |-> <<"e","m","a","i","l">>, description |-> <<"U","s","e","r"," ","e","m","a","i","l"," ","a","d","d","r","e","s","s">>]],
          [key |-> <<"n","a","m","e">>,
           value |-> [type |-> <<"s","t","r","i","n","g">>, description |-> <<"U","s","e","r"," ","f","u","l","l"," ","n","a","m","e">>]],
          [key |-> <<"r","o","l","e">>,
           value |-> [type |-> <<"s","t","r","i","n","g">>, enum |-> <<<<"u","s","e","r">>, <<"a","d","m","i","n">>, <<"m","o","d","e","r","a","t","o","r">>>>, description |-> <<"U","s","e","r"," ","r","o","l","e">>]],
          [key |-> <<"c","r","e","a","t","e","d","_","a","t">>,
           value |-> [type |-> <<"s","t","r","i","n","g">>, format |-> <<"d","a","t","e","-","t","i","m","e">>, description |-> <<"A","c","c","o","u","n","t"," ","c","r","e","a","t","i","o","n"," ","t","i","m","e","s","t","a","m","p">>]],
          [key |-> <<"u","p","d","a","t","e","d","_","a","t">>,
           value |-> [type |-> <<"s","t","r","i","n","g">>, format |-> <<"d","a","t","e","-","t","i","m","e">>, description |-> <<"L","a","s","t"," ","u","p","d","a","t","e"," ","t","i","m","e","s","t","a","m","p">>]]
        >>,
        required |-> <<<<"i","d">>, <<"e","m","a","i","l">>>>]],
    [key |-> <<"P","r","o","d","u","c","t">>,
     value |->
       [t |-> "object",
        type |-> <<"o","b","j","e","c","t">>,
        properties |-> <<
          [key |-> <<"i","d">>,
           value |-> [type |-> <<"s","t","r","i","n","g">>, format |-> <<"u","u","i","d">>, description |-> <<"P","r","o","d","u","c","t"," ","i","d","e","n","t","i","f","i","e","r">>]],
          [key |-> <<"n","a","m","e">>,
           value |-> [type |-> <<"s","t","r","i","n","g">>, description |-> <<"P","r","o","d","u","c","t"," ","n","a","m","e">>]],
          [key |-> <<"d","e","s","c","r","i","p","t","i","o","n">>,
           value |-> [type |-> <<"s","t","r","i","n","g">>, description |-> <<"P","r","o","d","u","c","t"," ","d","e","s","c","r","i","p","t","i","o","n">>]],
          [key |-> <<"p","r","i","c","e">>,
           value |-> [type |-> <<"n","u","m","b","e","r">>, minimum |-> 0, description |-> <<"P","r","o","d","u","c","t"," ","p","r","i","c","e">>]],
          [key |-> <<"i","n","v","e","n","t","o","r","y">>,
           value |-> [type |-> <<"i","n","t","e","g","e","r">>, minimum |-> 0, description |-> <<"A","v","a","i","l","a","b","l","e"," ","q","u","a","n","t","i","t","y">>]],
          [key |-> <<"c","a","t","e","g","o","r","y">>,
           value |-> [type |-> <<"s","t","r","i","n","g">>, description |-> <<"P","r","o","d","u","c","t"," ","c","a","t","e","g","o","r","y">>]]
        >>,
        required |-> <<<<"i","d">>, <<"n","a","m","e">>, <<"p","r","i","c","e">>>>]],
    [key |-> <<"O","r","d","e","r">>,
     value |->
       [t |-> "object",
        type |-> <<"o","b","j","e","c","t">>,
        properties |-> <<
          [key |-> <<"i","d">>,
           value |-> [type |-> <<"s","t","r","i","n","g">>, format |-> <<"u","u","i","d">>, description |-> <<"O","r","d","e","r"," ","i","d","e","n","t","i","f","i","e","r">>]],
          [key |-> <<"u","s","e","r","_","i","d">>,
           value |-> [type |-> <<"s","t","r","i","n","g">>, format |-> <<"u","u","i","d">>, description |-> <<"C","u","s","t","o","m","e","r"," ","r","e","f","e","r","e","n","c","e">>]],
          [key |-> <<"i","t","e","m","s">>,
           value |-> [type |-> <<"a","r","r","a","y">>, items |-> [type |-> <<"o","b","j","e","c","t">>], description |-> <<"O","r","d","e","r"," ","i","t","e","m","s">>]],
          [key |-> <<"t","o","t","a","l">>,
           value |-> [type |-> <<"n","u","m","b","e","r">>, minimum |-> 0, description |-> <<"O","r","d","e","r"," ","t","o","t","a","l">>]],
          [key |-> <<"s","t","a","t","u","s">>,
           value |-> [type |-> <<"s","t","r","i","n","g">>, enum |-> <<<<"p","e","n","d","i","n","g">>, <<"p","a","i","d">>, <<"s","h","i","p","p","e","d">>, <<"d","e","l","i","v","e","r","e","d">>, <<"c","a","n","c","e","l","l","e","d">>>>]],
          [key |-> <<"c","r","e","a","t","e","d","_","a","t">>,
           value |-> [type |-> <<"s","t","r","i","n","g">>, format |-> <<"d","a","t","e","-","t","i","m","e">>]]
        >>,
        required |-> <<<<"i","d">>, <<"u","s","e","r","_","i","d">>, <<"i","t","e","m","s">>, <<"t","o","t","a","l">>, <<"s","t","a","t","u","s">>>>]],
    [key |-> <<"C","a","r","t">>,
     value |->
       [t |-> "object",
        type |-> <<"o","b","j","e","c","t">>,
        properties |-> <<
          [key |-> <<"i","d">>,
           value |-> [type |-> <<"s","t","r","i","n","g">>, format |-> <<"u","u","i","d">>, description |-> <<"C","a","r","t"," ","i","d","e","n","t","i","f","i","e","r">>]],
          [key |-> <<"u","s","e","r","_","i","d">>,
           value |-> [type |-> <<"s","t","r","i","n","g">>, format |-> <<"u","u","i","d">>, description |-> <<"U","s","e","r"," ","r","e","f","e","r","e","n","c","e">>]],
          [key |-> <<"i","t","e","m","s">>,
           value |-> [type |-> <<"a","r","r","a","y">>, items |-> [type |-> <<"o","b","j","e","c","t">>], description |-> <<"C","a","r","t"," ","i","t","e","m","s">>]],
          [key |-> <<"s","u","b","t","o","t","a","l">>,
           value |-> [type |-> <<"n","u","m","b","e","r">>, minimum |-> 0, description |-> <<"C","a","r","t"," ","s","u","b","t","o","t","a","l">>]],
          [key |-> <<"u","p","d","a","t","e","d","_","a","t">>,
           value |-> [type |-> <<"s","t","r","i","n","g">>, format |-> <<"d","a","t","e","-","t","i","m","e">>]]
        >>,
        required |-> <<<<"i","d">>, <<"i","t","e","m","s">>>>]],
    [key |-> <<"P","a","y","m","e","n","t">>,
     value |->
       [t |-> "object",
        type |-> <<"o","b","j","e","c","t">>,
        properties |-> <<
          [key |-> <<"i","d">>,
           value |-> [type |-> <<"s","t","r","i","n","g">>, format |-> <<"u","u","i","d">>, description |-> <<"P","a","y","m","e","n","t"," ","i","d","e","n","t","i","f","i","e","r">>]],
          [key |-> <<"o","r","d","e","r","_","i","d">>,
           value |-> [type |-> <<"s","t","r","i","n","g">>, format |-> <<"u","u","i","d">>, description |-> <<"O","r","d","e","r"," ","r","e","f","e","r","e","n","c","e">>]],
          [key |-> <<"a","m","o","u","n","t">>,
           value |-> [type |-> <<"n","u","m","b","e","r">>, minimum |-> 0, description |-> <<"P","a","y","m","e","n","t"," ","a","m","o","u","n","t">>]],
          [key |-> <<"m","e","t","h","o","d">>,
           value |-> [type |-> <<"s","t","r","i","n","g">>, enum |-> <<<<"c","a","r","d">>, <<"p","a","y","p","a","l">>, <<"b","a","n","k","_","t","r","a","n","s","f","e","r">>>>]],
          [key |-> <<"s","t","a","t","u","s">>,
           value |-> [type |-> <<"s","t","r","i","n","g">>, enum |-> <<<<"p","e","n","d","i","n","g">>, <<"c","o","m","p","l","e","t","e","d">>, <<"f","a","i","l","e","d">>, <<"r","e","f","u","n","d","e","d">>>>]],
          [key |-> <<"p","r","o","c","e","s","s","e","d","_","a","t">>,
           value |-> [type |-> <<"s","t","r","i","n","g">>, format |-> <<"d","a","t","e","-","t","i","m","e">>]]
        >>,
        required |-> <<<<"i","d">>, <<"o","r","d","e","r","_","i","d">>, <<"a","m","o","u","n","t">>, <<"s","t","a","t","u","s">>>>]],
    [key |-> <<"T","i","c","k","e","t">>,
     value |->
       [t |-> "object",
        type |-> <<"o","b","j","e","c","t">>,
        properties |-> <<
          [key |-> <<"i","d">>,
           value |-> [type |-> <<"s","t","r","i","n","g">>, format |-> <<"u","u","i","d">>, description |-> <<"T","i","c","k","e","t"," ","i","d","e","n","t","i","f","i","e","r">>]],
          [key |-> <<"u","s","e","r","_","i","d">>,
           value |-> [type |-> <<"s","t","r","i","n","g">>, format |-> <<"u","u","i","d">>, description |-> <<"S","u","b","m","i","t","t","e","r"," ","r","e","f","e","r","e","n","c","e">>]],
          [key |-> <<"s","u","b","j","e","c","t">>,
           value |-> [type |-> <<"s","t","r","i","n","g">>, description |-> <<"T","i","c","k","e","t"," ","s","u","b","j","e","c","t">>]],
          [key |-> <<"d","e","s","c","r","i","p","t","i","o","n">>,
           value |-> [type |-> <<"s","t","r","i","n","g">>, description |-> <<"I","s","s","u","e"," ","d","e","s","c","r","i","p","t","i","o","n">>]],
          [key |-> <<"c","a","t","e","g","o","r","y">>,
           value |-> [type |-> <<"s","t","r","i","n","g">>, description |-> <<"I","s","s","u","e"," ","c","a","t","e","g","o","r","y">>]],
          [key |-> <<"p","r","i","o","r","i","t","y">>,
           value |-> [type |-> <<"s","t","r","i","n","g">>, enum |-> <<<<"l","o","w">>, <<"m","e","d","i","u","m">>, <<"h","i","g","h">>, <<"u","r","g","e","n","t">>>>]],
          [key |-> <<"s","t","a","t","u","s">>,
           value |-> [type |-> <<"s","t","r","i","n","g">>, enum |-> <<<<"o","p","e","n">>, <<"i","n","_","p","r","o","g","r","e","s","s">>, <<"r","e","s","o","l","v","e","d">>, <<"c","l","o","s","e","d">>>>]],
          [key |-> <<"a","s","s","i","g","n","e","d","_","t","o">>,
           value |-> [type |-> <<"s","t","r","i","n","g">>, format |-> <<"u","u","i","d">>, description |-> <<"A","g","e","n","t"," ","r","e","f","e","r","e","n","c","e">>]],
          [key |-> <<"c","r","e","a","t","e","d","_","a","t">>,
           value |-> [type |-> <<"s","t","r","i","n","g">>, format |-> <<"d","a","t","e","-","t","i","m","e">>]]
        >>,
        required |-> <<<<"i","d">>, <<"s","u","b","j","e","c","t">>, <<"s","t","a","t","u","s">>>>]],
    [key |-> <<"B","o","o","k","i","n","g">>,
     value |->
       [t |-> "object",
        type |-> <<"o","b","j","e","c","t">>,
        properties |-> <<
          [key |-> <<"i","d">>,
           value |-> [type |-> <<"s","t","r","i","n","g">>, format |-> <<"u","u","i","d">>, description |-> <<"B","o","o","k","i","n","g"," ","i","d","e","n","t","i","f","i","e","r">>]],
          [key |-> <<"u","s","e","r","_","i","d">>,
           value |-> [type |-> <<"s","t","r","i","n","g">>, format |-> <<"u","u","i","d">>, description |-> <<"C","u","s","t","o","m","e","r"," ","r","e","f","e","r","e","n","c","e">>]],
          [key |-> <<"s","e","r","v","i","c","e">>,
           value |-> [type |-> <<"s","t","r","i","n","g">>, description |-> <<"S","e","r","v","i","c","e"," ","b","o","o","k","e","d">>]],
          [key |-> <<"d","a","t","e">>,
           value |-> [type |-> <<"s","t","r","i","n","g">>, format |-> <<"d","a","t","e">>, description |-> <<"B","o","o","k","i","n","g"," ","d","a","t","e">>]],
          [key |-> <<"t","i","m","e","_","s","l","o","t">>,
           value |-> [type |-> <<"s","t","r","i","n","g">>, description |-> <<"T","i","m","e"," ","s","l","o","t">>]],
          [key |-> <<"s","t","a","t","u","s">>,
           value |-> [type |-> <<"s","t","r","i","n","g">>, enum |-> <<<<"c","o","n","f","i","r","m","e","d">>, <<"p","e","n","d","i","n","g">>, <<"c","a","n","c","e","l","l","e","d">>, <<"c","o","m","p","l","e","t","e","d">>>>]],
          [key |-> <<"n","o","t","e","s">>,
           value |-> [type |-> <<"s","t","r","i","n","g">>, description |-> <<"A","d","d","i","t","i","o","n","a","l"," ","n","o","t","e","s">>]]
        >>,
        required |-> <<<<"i","d">>, <<"u","s","e","r","_","i","d">>, <<"s","e","r","v","i","c","e">>, <<"d","a","t","e">>, <<"s","t","a","t","u","s">>>>]],
    [key |-> <<"C","o","n","t","e","n","t">>,
     value |->
       [t |-> "object",
        type |-> <<"o","b","j","e","c","t">>,
        properties |-> <<
          [key |-> <<"i","d">>,
           value |-> [type |-> <<"s","t","r","i","n","g">>, format |-> <<"u","u","i","d">>, description |-> <<"C","o","n","t","e","n","t"," ","i","d","e","n","t","i","f","i","e","r">>]],
          [key |-> <<"a","u","t","h","o","r","_","i","d">>,
           value |-> [type |-> <<"s","t","r","i","n","g">>, format |-> <<"u","u","i","d">>, description |-> <<"A","u","t","h","o","r"," ","r","e","f","e","r","e","n","c","e">>]],
          [key |-> <<"t","i","t","l","e">>,
           value |-> [type |-> <<"s","t","r","i","n","g">>, description |-> <<"C","o","n","t","e","n","t"," ","t","i","t","l","e">>]],
          [key |-> <<"b","o","d","y">>,
           value |-> [type |-> <<"s","t","r","i","n","g">>, description |-> <<"C","o","n","t","e","n","t"," ","b","o","d","y">>]],
          [key |-> <<"t","a","g","s">>,
           value |-> [type |-> <<"a","r","r","a","y">>, items |-> [type |-> <<"s","t","r","i","n","g">>], description |-> <<"C","o","n","t","e","n","t"," ","t","a","g","s">>]],
          [key |-> <<"s","t","a","t","u","s">>,
           value |-> [type |-> <<"s","t","r","i","n","g">>, enum |-> <<<<"d","r","a","f","t">>, <<"r","e","v","i","e","w">>, <<"p","u","b","l","i","s","h","e","d">>, <<"a","r","c","h","i","v","e","d">>>>]],
          [key |-> <<"p","u","b","l","i","s","h","e","d","_","a","t">>,
           value |-> [type |-> <<"s","t","r","i","n","g">>, format |-> <<"d","a","t","e","-","t","i","m","e">>]]
        >>,
        required |-> <<<<"i","d">>, <<"t","i","t","l","e">>, <<"b","o","d","y">>, <<"s","t","a","t","u","s">>>>]],
    [key |-> <<"N","o","t","i","f","i","c","a","t","i","o","n">>,
     value |->
       [t |-> "object",
        type |-> <<"o","b","j","e","c","t">>,
        properties |-> <<
          [key |-> <<"i","d">>,
           value |-> [type |-> <<"s","t","r","i","n","g">>, format |-> <<"u","u","i","d">>, description |-> <<"N","o","t","i","f","i","c","a","t","i","o","n"," ","i","d","e","n","t","i","f","i","e","r">>]],
          [key |-> <<"u","s","e","r","_","i","d">>,
           value |-> [type |-> <<"s","t","r","i","n","g">>, format |-> <<"u","u","i","d">>, description |-> <<"R","e","c","i","p","i","e","n","t"," ","r","e","f","e","r","e","n","c","e">>]],
          [key |-> <<"t","y","p","e">>,
           value |-> [type |-> <<"s","t","r","i","n","g">>, description |-> <<"N","o","t","i","f","i","c","a","t","i","o","n"," ","t","y","p","e">>]],
          [key |-> <<"c","h","a","n","n","e","l">>,
           value |-> [type |-> <<"s","t","r","i","n","g">>, enum |-> <<<<"e","m","a","i","l">>, <<"s","m","s">>, <<"p","u","s","h">>, <<"i","n","_","a","p","p">>>>]],
          [key |-> <<"c","o","n","t","e","n","t">>,
           value |-> [type |-> <<"s","t","r","i","n","g">>, description |-> <<"M","e","s","s","a","g","e"," ","c","o","n","t","e","n","t">>]],
          [key |-> <<"r","e","a","d">>,
           value |-> [type |-> <<"b","o","o","l","e","a","n">>, default |-> FALSE]],
          [key |-> <<"s","e","n","t","_","a","t">>,
           value |-> [type |-> <<"s","t","r","i","n","g">>, format |-> <<"d","a","t","e","-","t","i","m","e">>]]
        >>,
        required |-> <<<<"i","d">>, <<"u","s","e","r","_","i","d">>, <<"t","y","p","e">>, <<"c","o","n","t","e","n","t">>>>]],
    [key |-> <<"S","e","s","s","i","o","n">>,
     value |->
       [t |-> "object",
        type |-> <<"o","b","j","e","c","t">>,
        properties |-> <<
          [key |-> <<"i","d">>,
           value |-> [type |-> <<"s","t","r","i","n","g">>, format |-> <<"u","u","i","d">>, description |-> <<"S","e","s","s","i","o","n"," ","i","d","e","n","t","i","f","i","e","r">>]],
          [key |-> <<"u","s","e","r","_","i","d">>,
           value |-> [type |-> <<"s","t","r","i","n","g">>, format |-> <<"u","u","i","d">>, description |-> <<"U","s","e","r"," ","r","e","f","e","r","e","n","c","e">>]],
          [key |-> <<"t","o","k","e","n">>,
           value |-> [type |-> <<"s","t","r","i","n","g">>, description |-> <<"S","e","s","s","i","o","n"," ","t","o","k","e","n">>]],
          [key |-> <<"e","x","p","i","r","e","s","_","a","t">>,
           value |-> [type |-> <<"s","t","r","i","n","g">>, format |-> <<"d","a","t","e","-","t","i","m","e">>]],
          [key |-> <<"c","r","e","a","t","e","d","_","a","t">>,
           value |-> [type |-> <<"s","t","r","i","n","g">>, format |-> <<"d","a","t","e","-","t","i","m","e">>]],
          [key |-> <<"i","p","_","a","d","d","r","e","s","s">>,
           value |-> [type |-> <<"s","t","r","i","n","g">>, description |-> <<"C","l","i","e","n","t"," ","I","P">>]]
        >>,
        required |-> <<<<"i","d">>, <<"u","s","e","r","_","i","d">>, <<"t","o","k","e","n">>, <<"e","x","p","i","r","e","s","_","a","t">>>>]],
    [key |-> <<"T","a","s","k">>,
     value |->
       [t |-> "object",
        type |-> <<"o","b","j","e","c","t">>,
        properties |-> <<
          [key |-> <<"i","d">>,
           value |-> [type |-> <<"s","t","r","i","n","g">>, format |-> <<"u","u","i","d">>, description |-> <<"T","a","s","k"," ","i","d","e","n","t","i","f","i","e","r">>]],
          [key |-> <<"t","i","t","l","e">>,
           value |-> [type |-> <<"s","t","r","i","n","g">>, description |-> <<"T","a","s","k"," ","t","i","t","l","e">>]],
          [key |-> <<"d","e","s","c","r","i","p","t","i","o","n">>,
           value |-> [type |-> <<"s","t","r","i","n","g">>, description |-> <<"T","a","s","k"," ","d","e","s","c","r","i","p","t","i","o","n">>]],
          [key |-> <<"a","s","s","i","g","n","e","e","_","i","d">>,
           value |-> [type |-> <<"s","t","r","i","n","g">>, format |-> <<"u","u","i","d">>, description |-> <<"A","s","s","i","g","n","e","e"," ","r","e","f","e","r","e","n","c","e">>]],
          [key |-> <<"s","t","a","t","u","s">>,
           value |-> [type |-> <<"s","t","r","i","n","g">>, enum |-> <<<<"p","e","n","d","i","n","g">>, <<"i","n","_","p","r","o","g","r","e","s","s">>, <<"r","e","v","i","e","w">>, <<"c","o","m","p","l","e","t","e","d">>>>]],
          [key |-> <<"p","r","i","o","r","i","t","y">>,
           value |-> [type |-> <<"s","t","r","i","n","g">>, enum |-> <<<<"l","o","w">>, <<"m","e","d","i","u","m">>, <<"h","i","g","h">>>>]],
          [key |-> <<"d","u","e","_","d","a","t","e">>,
           value |-> [type |-> <<"s","t","r","i","n","g">>, format |-> <<"d","a","t","e">>]]
        >>,
        required |-> <<<<"i","d">>, <<"t","i","t","l","e">>, <<"s","t","a","t","u","s">>>>]],
    [key |-> <<"R","e","c","o","r","d">>,
     value |->
       [t |-> "object",
        type |-> <<"o","b","j","e","c","t">>,
        properties |-> <<
          [key |-> <<"i","d">>,
           value |-> [type |-> <<"s","t","r","i","n","g">>, format |-> <<"u","u","i","d">>, description |-> <<"R","e","c","o","r","d"," ","i","d","e","n","t","i","f","i","e","r">>]],
          [key |-> <<"t","y","p","e">>,
           value |-> [type |-> <<"s","t","r","i","n","g">>, description |-> <<"R","e","c","o","r","d"," ","t","y","p","e">>]],
          [key |-> <<"d","a","t","a">>,
           value |-> [type |-> <<"o","b","j","e","c","t">>, description |-> <<"R","e","c","o","r","d"," ","d","a","t","a">>]],
          [key |-> <<"s","t","a","t","u","s">>,
           value |-> [type |-> <<"s","t","r","i","n","g">>, description |-> <<"R","e","c","o","r","d"," ","s","t","a","t","u","s">>]],
          [key |-> <<"c","r","e","a","t","e","d","_","a","t">>,
           value |-> [type |-> <<"s","t","r","i","n","g">>, format |-> <<"d","a","t","e","-","t","i","m","e">>]],
          [key |-> <<"u","p","d","a","t","e","d","_","a","t">>,
           value |-> [type |-> <<"s","t","r","i","n","g">>, format |-> <<"d","a","t","e","-","t","i","m","e">>]]
        >>,
        required |-> <<<<"i","d">>, <<"t","y","p","e">>, <<"d","a","t","a">>>>]]
  >>

relationshipMap ==
  <<
    [key |-> <<"U","s","e","r","-","O","r","d","e","r">>,
     value |-> [t |-> "object", from |-> <<"U","s","e","r">>, to |-> <<"O","r","d","e","r">>,
               type |-> <<"o","n","e","-","t","o","-","m","a","n","y">>,
               description |-> <<"U","s","e","r"," ","p","l","a","c","e","s"," ","o","r","d","e","r","s">>]],
    [key |-> <<"U","s","e","r","-","C","a","r","t">>,
     value |-> [t |-> "object", from |-> <<"U","s","e","r">>, to |-> <<"C","a","r","t">>,
               type |-> <<"o","n","e","-","t","o","-","o","n","e">>,
               description |-> <<"U","s","e","r"," ","h","a","s"," ","a"," ","c","a","r","t">>]],
    [key |-> <<"U","s","e","r","-","T","i","c","k","e","t">>,
     value |-> [t |-> "object", from |-> <<"U","s","e","r">>, to |-> <<"T","i","c","k","e","t">>,
               type |-> <<"o","n","e","-","t","o","-","m","a","n","y">>,
               description |-> <<"U","s","e","r"," ","c","r","e","a","t","e","s"," ","t","i","c","k","e","t","s">>]],
    [key |-> <<"U","s","e","r","-","B","o","o","k","i","n","g">>,
     value |-> [t |-> "object", from |-> <<"U","s","e","r">>, to |-> <<"B","o","o","k","i","n","g">>,
               type |-> <<"o","n","e","-","t","o","-","m","a","n","y">>,
               description |-> <<"U","s","e","r"," ","m","a","k","e","s"," ","b","o","o","k","i","n","g","s">>]],
    [key |-> <<"U","s","e","r","-","C","o","n","t","e","n","t">>,
     value |-> [t |-> "object", from |-> <<"U","s","e","r">>, to |-> <<"C","o","n","t","e","n","t">>,
               type |-> <<"o","n","e","-","t","o","-","m","a","n","y">>,
               description |-> <<"U","s","e","r"," ","c","r","e","a","t","e","s"," ","c","o","n","t","e","n","t">>]],
    [key |-> <<"U","s","e","r","-","S","e","s","s","i","o","n">>,
     value |-> [t |-> "object", from |-> <<"U","s","e","r">>, to |-> <<"S","e","s","s","i","o","n">>,
               type |-> <<"o","n","e","-","t","o","-","m","a","n","y">>,
               description |-> <<"U","s","e","r"," ","h","a","s"," ","s","e","s","s","i","o","n","s">>]],
    [key |-> <<"U","s","e","r","-","N","o","t","i","f","i","c","a","t","i","o","n">>,
     value |-> [t |-> "object", from |-> <<"U","s","e","r">>, to |-> <<"N","o","t","i","f","i","c","a","t","i","o","n">>,
               type |-> <<"o","n","e","-","t","o","-","m","a","n","y">>,
               description |-> <<"U","s","e","r"," ","r","e","c","e","i","v","e","s"," ","n","o","t","i","f","i","c","a","t","i","o","n","s">>]],
    [key |-> <<"O","r","d","e","r","-","P","a","y","m","e","n","t">>,
     value |-> [t |-> "object", from |-> <<"O","r","d","e","r">>, to |-> <<"P","a","y","m","e","n","t">>,
               type |-> <<"o","n","e","-","t","o","-","o","n","e">>,
               description |-> <<"O","r","d","e","r"," ","h","a","s"," ","p","a","y","m","e","n","t">>]],
    [key |-> <<"O","r","d","e","r","-","P","r","o","d","u","c","t">>,
     value |-> [t |-> "object", from |-> <<"O","r","d","e","r">>, to |-> <<"P","r","o","d","u","c","t">>,
               type |-> <<"m","a","n","y","-","t","o","-","m","a","n","y">>,
               description |-> <<"O","r","d","e","r"," ","c","o","n","t","a","i","n","s"," ","p","r","o","d","u","c","t","s">>]],
    [key |-> <<"C","a","r","t","-","P","r","o","d","u","c","t">>,
     value |-> [t |-> "object", from |-> <<"C","a","r","t">>, to |-> <<"P","r","o","d","u","c","t">>,
               type |-> <<"m","a","n","y","-","t","o","-","m","a","n","y">>,
               description |-> <<"C","a","r","t"," ","c","o","n","t","a","i","n","s"," ","p","r","o","d","u","c","t","s">>]]
  >>

generateEntitySchema(entity) ==
  LET found == Get(schemas, entity)
  IN  IF Falsy(found) THEN Own(schemas, <<"R","e","c","o","r","d">>) ELSE found

\* description.substring(0, 100)
DescriptionLimit == 100

\* only the key in array order probed, not the reversed one
RelationshipAt_OneOrder(entityArray, i, j) ==
  LET key1 == entityArray[i] \o <<"-">> \o entityArray[j]
  IN  IF ~Falsy(Get(relationshipMap, key1)) THEN << Get(relationshipMap, key1) >>
      ELSE <<>>

\* the relationship pushed for the pair (i, j) of the nested loops, if any
RelationshipAt(entityArray, i, j) ==
  LET key1 == entityArray[i] \o <<"-">> \o entityArray[j]
      key2 == entityArray[j] \o <<"-">> \o entityArray[i]
  IN  IF ~Falsy(Get(relationshipMap, key1)) THEN << Get(relationshipMap, key1) >>
      ELSE IF ~Falsy(Get(relationshipMap, key2)) THEN << Get(relationshipMap, key2) >>
      ELSE <<>>

\* the inner loop stopping one entity early: j < entityArray.length - 1
RECURSIVE RelationshipsInner_OffByOne(_, _, _)
RelationshipsInner_OffByOne(entityArray, i, j) ==
  IF j > Len(entityArray) - 1 THEN <<>>
  ELSE RelationshipAt(entityArray, i, j)
       \o RelationshipsInner_OffByOne(entityArray, i, j + 1)

\* for (let j = i + 1; j < entityArray.length; j++), indices counted from 1
RECURSIVE RelationshipsInner(_, _, _)
RelationshipsInner(entityArray, i, j) ==
  IF j > Len(entityArray) THEN <<>>
  ELSE RelationshipAt(entityArray, i, j) \o RelationshipsInner(entityArray, i, j + 1)

\* for (let i = 0; i < entityArray.length; i++), indices counted from 1
RECURSIVE Relationships(_, _)
Relationships(entityArray, i) ==
  IF i > Len(entityArray) THEN <<>>
  ELSE RelationshipsInner(entityArray, i, i + 1) \o Relationships(entityArray, i + 1)

\* the ellipsis appended only when the description was cut
generateDataModel_EllipsisWhenCut(workflow, description) ==
  LET entityArray == extractEntities(workflow)
  IN  [schema |-> <<"h","t","t","p",":","/","/","j","s","o","n","-","s","c","h","e","m","a",".","o","r","g","/","d","r","a","f","t","-","0","7","/","s","c","h","e","m","a","#">>,
       title |-> <<"S","c","e","n","a","r","i","o"," ","D","a","t","a"," ","M","o","d","e","l">>,
       description |-> <<"D","a","t","a"," ","m","o","d","e","l"," ","g","e","n","e","r","a","t","e","d"," ","f","o","r",":"," ">>
                       \o substring0(description, DescriptionLimit)
                       \o (IF Len(description) > DescriptionLimit THEN <<".",".",".">> ELSE <<>>),
       entities |-> [k \in 1..Len(entityArray) |->
                       [key |-> entityArray[k],
                        value |-> generateEntitySchema(entityArray[k])]],
       relationships |-> Relationships(entityArray, 1)]

generateDataModel(workflow, description) ==
  LET entityArray == extractEntities(workflow)
  IN  [schema |-> <<"h","t","t","p",":","/","/","j","s","o","n","-","s","c","h","e","m","a",".","o","r","g","/","d","r","a","f","t","-","0","7","/","s","c","h","e","m","a","#">>,
       title |-> <<"S","c","e","n","a","r","i","o"," ","D","a","t","a"," ","M","o","d","e","l">>,
       description |-> <<"D","a","t","a"," ","m","o","d","e","l"," ","g","e","n","e","r","a","t","e","d"," ","f","o","r",":"," ">>
                       \o substring0(description, DescriptionLimit) \o <<".",".",".">>,
       entities |-> [k \in 1..Len(entityArray) |->
                       [key |-> entityArray[k],
                        value |-> generateEntitySchema(entityArray[k])]],
       relationships |-> Relationships(entityArray, 1)]

\* The array passed to generateDataModel as the call leaves it: the function
\* reads name and description of the steps in extractEntities, copies the Set
\* into its own entityArray, and writes to its own dataModel only.
WorkflowAfterDataModel(workflow) == workflow

----------------------------------------------------------------------------
(* services/workflowService.js                                             *)

\* the data model built from the description's own words, not from the workflow
generateWorkflow_ModelOfDescription(description, now) ==
  LET aiResponse == mockAIGenerate(description, now)
      words == Arr(<< [id |-> 1, name |-> description, description |-> <<>>] >>)
  IN  [workflow |-> aiResponse.workflow,
       mermaid_diagram |-> generateMermaidDiagram(aiResponse.workflow),
       data_model |-> generateDataModel(words, description),
       summary |-> aiResponse.summary]

\* the body of generateWorkflow after mockAIGenerate has resolved
generateWorkflow(description, now) ==
  LET aiResponse == mockAIGenerate(description, now)
      \* aiResponse.workflow is one array, handed to both stages in turn and
      \* then returned
      drawn == WorkflowAfterDiagram(aiResponse.workflow)
      modelled == WorkflowAfterDataModel(drawn)
  IN  [workflow |-> modelled,
       mermaid_diagram |-> generateMermaidDiagram(aiResponse.workflow),
       data_model |-> generateDataModel(drawn, description),
       summary |-> aiResponse.summary]

----------------------------------------------------------------------------
(* controllers/scenarioController.js                                       *)

\* description.trim().length < 10
MinDescriptionLength == 10

InvalidInput ==
  [status |-> 400,
   body |-> [error |-> <<"I","n","v","a","l","i","d"," ","i","n","p","u","t">>,
             message |-> <<"P","l","e","a","s","e"," ","p","r","o","v","i","d","e"," ","a"," ","v","a","l","i","d"," ","s","c","e","n","a","r","i","o"," ","d","e","s","c","r","i","p","t","i","o","n">>]]

TooShort ==
  [status |-> 400,
   body |-> [error |-> <<"D","e","s","c","r","i","p","t","i","o","n"," ","t","o","o"," ","s","h","o","r","t">>,
             message |-> <<"P","l","e","a","s","e"," ","p","r","o","v","i","d","e"," ","a"," ","m","o","r","e"," ","d","e","t","a","i","l","e","d"," ","s","c","e","n","a","r","i","o"," ","d","e","s","c","r","i","p","t","i","o","n"," ","(","a","t"," ","l","e","a","s","t"," ","1","0"," ","c","h","a","r","a","c","t","e","r","s",")">>]]

\* res.json({ success: true, data: result })
Success(result) == [status |-> 200, body |-> [success |-> TRUE, data |-> result]]

\* the catch block answering with what the stages had produced before the throw
GenerationFailed_Partial(partial) ==
  [status |-> 500,
   body |-> [error |-> <<"G","e","n","e","r","a","t","i","o","n"," ","f","a","i","l","e","d">>,
             message |-> <<"A","n"," ","e","r","r","o","r"," ","o","c","c","u","r","r","e","d"," ","w","h","i","l","e"," ","g","e","n","e","r","a","t","i","n","g"," ","t","h","e"," ","s","c","e","n","a","r","i","o">>,
             data |-> partial]]

\* the catch block; partial is what the stages had produced before the throw
GenerationFailed(partial) ==
  [status |-> 500,
   body |-> [error |-> <<"G","e","n","e","r","a","t","i","o","n"," ","f","a","i","l","e","d">>,
             message |-> <<"A","n"," ","e","r","r","o","r"," ","o","c","c","u","r","r","e","d"," ","w","h","i","l","e"," ","g","e","n","e","r","a","t","i","n","g"," ","t","h","e"," ","s","c","e","n","a","r","i","o">>]]

\* the length test on the raw description, not on the trimmed one
Validate_Untrimmed(description) ==
  IF Falsy(description) \/ ~IsString(description) THEN "invalid"
  ELSE IF Len(description.chars) < MinDescriptionLength THEN "short"
  ELSE "ok"

\* the two validation branches of generateScenario
Validate(description) ==
  IF Falsy(description) \/ ~IsString(description) THEN "invalid"
  ELSE IF Len(trim(description.chars)) < MinDescriptionLength THEN "short"
  ELSE "ok"

\* what generateWorkflow has produced when the given stage throws
PartialResult(description, stage, now) ==
  LET result == generateWorkflow(description, now)
  IN  IF stage = "mockAIGenerate" THEN [stage |-> stage]
      ELSE IF stage = "generateMermaidDiagram"
      THEN [stage |-> stage, workflow |-> result.workflow, summary |-> result.summary]
      ELSE [stage |-> stage, workflow |-> result.workflow, summary |-> result.summary,
            mermaid_diagram |-> result.mermaid_diagram]
----------------------------------------------------------------------------
(* Bounds and the inputs drawn within them.                                *)

MaxRequests == 2
MaxWords == 2
MaxSteps == 3
MaxTime == 1
MaxLabelLen == 2
MaxEntitySteps == 2
MaxRuns == 2

Requests == 1..MaxRequests
Times == 0..MaxTime
Runs == 1..MaxRuns

\* the description of the end-to-end example
CheckoutDescription ==
  <<"B","u","i","l","d"," ","a","n"," ","e","-","c","o","m","m","e","r","c","e"," ","c","h","e","c","k","o","u","t"," ","f","l","o","w"," ","w","h","e","r","e"," ","u","s","e","r","s"," ","c","a","n"," ","b","r","o","w","s","e"," ","p","r","o","d","u","c","t","s",","," ","a","d","d"," ","i","t","e","m","s"," ","t","o"," ","c","a","r","t",","," ","a","n","d"," ","c","o","m","p","l","e","t","e"," ","p","u","r","c","h","a","s","e"," ","w","i","t","h"," ","p","a","y","m","e","n","t">>

\* the description member of the request bodies sent
Bodies ==
  { Undefined, Null, Num(0), Num(42), Arr(<<>>), Str(<<>>),
    Str(<<"s","h","o","r","t">>),
    Str(<<" "," "," "," "," "," "," "," "," "," "," "," ">>),
    Str(<<" "," ","t","o","o"," ","s","h","o","r","t"," ","\n">>),
    Str(<<" ","u","s","e","r"," ","l","o","g","i","n","\t">>),
    Str(<<"S","o","m","e","t","h","i","n","g"," ","c","o","m","p","l","e","t","e","l","y"," ","r","a","n","d","o","m"," ","a","n","d"," ","u","n","i","q","u","e">>),
    Str(CheckoutDescription) }

\* the words descriptions are made of
Vocabulary ==
  { <<"S","H","O","P">>, <<"o","r","d","e","r">>, <<"L","o","g","i","n">>, <<"u","s","e","r">>, <<"a","c","c","o","u","n","t">>, <<"b","o","o","k">>, <<"t","i","c","k","e","t">>,
    <<"b","l","o","g">>, <<"t","a","s","k">>, <<"d","a","t","a">>, <<"a","l","e","r","t">>, <<"r","a","n","d","o","m">>, <<"r","e","g","i","s","t","r","a","t","i","o","n">> }

RECURSIVE WordsToText(_)
WordsToText(words) ==
  IF Len(words) = 0 THEN <<>>
  ELSE IF Len(words) = 1 THEN words[1]
  ELSE words[1] \o <<" ">> \o WordsToText(Tail(words))

\* the examples of the README table and of the tests
DocumentedDescriptions ==
  { <<"O","n","l","i","n","e"," ","s","t","o","r","e"," ","c","h","e","c","k","o","u","t">>, <<"U","s","e","r"," ","r","e","g","i","s","t","r","a","t","i","o","n"," ","f","l","o","w">>,
    <<"D","o","c","t","o","r"," ","a","p","p","o","i","n","t","m","e","n","t"," ","s","y","s","t","e","m">>, <<"C","u","s","t","o","m","e","r"," ","s","u","p","p","o","r","t"," ","w","o","r","k","f","l","o","w">>,
    <<"B","l","o","g"," ","p","u","b","l","i","s","h","i","n","g"," ","p","r","o","c","e","s","s">>, <<"D","o","c","u","m","e","n","t"," ","a","p","p","r","o","v","a","l"," ","f","l","o","w">>,
    <<"D","a","t","a"," ","m","i","g","r","a","t","i","o","n"," ","p","i","p","e","l","i","n","e">>, <<"N","o","t","i","f","i","c","a","t","i","o","n"," ","s","y","s","t","e","m">>,
    <<"I"," ","w","a","n","t"," ","t","o"," ","b","u","i","l","d"," ","a","n"," ","o","n","l","i","n","e"," ","s","h","o","p"," ","w","h","e","r","e"," ","u","s","e","r","s"," ","c","a","n"," ","b","u","y"," ","p","r","o","d","u","c","t","s">>,
    <<"U","s","e","r"," ","l","o","g","i","n"," ","a","n","d"," ","s","i","g","n","u","p"," ","f","l","o","w"," ","w","i","t","h"," ","p","a","s","s","w","o","r","d"," ","r","e","s","e","t">>,
    <<"B","o","o","k"," ","a","n"," ","a","p","p","o","i","n","t","m","e","n","t"," ","w","i","t","h"," ","a"," ","d","o","c","t","o","r">>,
    <<"C","r","e","a","t","e"," ","a"," ","c","u","s","t","o","m","e","r"," ","s","u","p","p","o","r","t"," ","t","i","c","k","e","t"," ","s","y","s","t","e","m">>,
    <<"S","o","m","e","t","h","i","n","g"," ","c","o","m","p","l","e","t","e","l","y"," ","r","a","n","d","o","m"," ","a","n","d"," ","u","n","i","q","u","e">>,
    CheckoutDescription }

Descriptions ==
  { WordsToText(ws) : ws \in UNION { [1..n -> Vocabulary] : n \in 0..MaxWords } }
  \cup DocumentedDescriptions

\* the category values generateStepsForType and generateSummary are called with
TypeValues ==
  { types[i].key : i \in 1..Len(types) }
  \cup { <<"g","e","n","e","r","a","l">>, <<"u","n","k","n","o","w","n">>, <<>>, <<"E","c","o","m","m","e","r","c","e">> }
  \cup ObjectPrototypeKeys

\* the step types workflows are made of
StepTypes ==
  { <<"d","e","c","i","s","i","o","n">>, <<"c","o","n","d","i","t","i","o","n","a","l">>, <<"t","r","i","g","g","e","r">>, <<"s","y","s","t","e","m","_","a","c","t","i","o","n">>, <<"c","u","s","t","o","m">> }

StepNames == << <<"S","t","a","r","t">>, <<"C","h","e","c","k"," ","\"","i","t","\"">>, <<"N","e","x","t"," ","[","s","t","e","p","]">>, <<"E","n","d">> >>

\* a workflow of n steps with ids 1..n and the given types
MakeWorkflow(stepTypes) ==
  Arr([k \in 1..Len(stepTypes) |->
         [id |-> k, name |-> StepNames[((k - 1) % Len(StepNames)) + 1],
          description |-> <<"s","t","e","p">>, type |-> stepTypes[k]]])

\* the step types one-step workflows are drawn with: every key of the shape
\* table, names holding database and system, names of no table, and names
\* every object inherits
NodeTypes ==
  { shapes[i].key : i \in 1..Len(shapes) }
  \cup { <<"c","u","s","t","o","m">>, <<"d","a","t","a","b","a","s","e">>, <<"s","u","b","s","y","s","t","e","m">>, <<"s","y","s","t","e","m","_","d","a","t","a","b","a","s","e">>, <<"T","r","i","g","g","e","r">>,
         <<"c","o","n","s","t","r","u","c","t","o","r">>, <<"t","o","S","t","r","i","n","g">> }

Workflows ==
  { MakeWorkflow(ts) : ts \in UNION { [1..n -> StepTypes] : n \in 0..MaxSteps } }
  \cup { MakeWorkflow(<<type>>) : type \in NodeTypes }
  \cup { templates[i].value : i \in 1..Len(templates) }
  \cup { Undefined, Null }

\* the stages of generateWorkflow, in the order they run
Stages == << "mockAIGenerate", "generateMermaidDiagram", "generateDataModel" >>

\* the characters step names are made of: every character escapeLabel
\* rewrites, and three it keeps
LabelChars ==
  { "\"", "[", "]", "{", "}", "(", ")", ">", "<", "-", "'", "a" }

\* the step names escapeLabel is called with; the last two are those of the tests
Labels ==
  UNION { [1..n -> LabelChars] : n \in 0..MaxLabelLen }
  \cup { <<"t","e","s","t"," ","\"","q","u","o","t","e","d","\"">>, <<"t","e","s","t"," ","[","b","r","a","c","k","e","t","s","]">>, <<"a"," ","-",">"," ","(","b",")"," ","<","-"," ","\"","c","\"">> }

\* steps as the schema generator tests write them: the four of the tests, two
\* without a keyword, four that between them hold the other keywords
EntitySteps ==
  << [name |-> <<"E","n","t","e","r"," ","C","r","e","d","e","n","t","i","a","l","s">>, description |-> <<"U","s","e","r"," ","e","n","t","e","r","s"," ","p","a","s","s","w","o","r","d">>],
     [name |-> <<"B","r","o","w","s","e">>,            description |-> <<"B","r","o","w","s","e"," ","p","r","o","d","u","c","t","s">>],
     [name |-> <<"O","r","d","e","r">>,             description |-> <<"P","l","a","c","e"," ","o","r","d","e","r">>],
     [name |-> <<"C","h","e","c","k","o","u","t">>,          description |-> <<"U","s","e","r"," ","p","a","y","s"," ","f","o","r"," ","o","r","d","e","r">>],
     [name |-> <<"R","e","s","e","t">>,             description |-> <<"E","n","t","e","r"," ","n","e","w"," ","p","a","s","s","w","o","r","d">>],
     [name |-> <<"W","a","i","t">>,              description |-> <<"N","o","t","h","i","n","g"," ","h","a","p","p","e","n","s">>],
     [name |-> <<"P","a","y">>,               description |-> <<"P","A","Y","M","E","N","T"," ","o","f"," ","t","h","e"," ","p","u","r","c","h","a","s","e"," ","o","f"," ","c","a","r","t"," ","i","t","e","m","s">>],
     [name |-> <<"R","e","p","o","r","t"," ","I","s","s","u","e">>,      description |-> <<"a","l","e","r","t"," ","o","n"," ","t","i","c","k","e","t"," ","t","o","k","e","n">>],
     [name |-> <<"R","e","s","e","r","v","e">>,           description |-> <<"b","o","o","k","i","n","g"," ","r","e","s","e","r","v","a","t","i","o","n"," ","a","p","p","o","i","n","t","m","e","n","t">>],
     [name |-> <<"P","o","s","t"," ","A","r","t","i","c","l","e">>,      description |-> <<"c","o","n","t","e","n","t"," ","n","o","t","i","f","i","c","a","t","i","o","n"," ","f","o","r"," ","t","a","s","k"," ","w","o","r","k","f","l","o","w">>] >>

\* a workflow of the chosen steps, with ids 1..n
MakeEntityWorkflow(choice) ==
  Arr([k \in 1..Len(choice) |->
         [id |-> k, name |-> EntitySteps[choice[k]].name,
          description |-> EntitySteps[choice[k]].description]])

\* a workflow of one step whose text is one keyword
KeywordWorkflow(keyword) ==
  Arr(<< [id |-> 1, name |-> keyword, description |-> <<"s","t","e","p">>] >>)

\* the workflows extractEntities is called with
EntityWorkflows ==
  { MakeEntityWorkflow(c) :
      c \in UNION { [1..n -> 1..Len(EntitySteps)] : n \in 0..MaxEntitySteps } }
  \cup UNION { { KeywordWorkflow(entityRules[i].keywords[k]) :
                   k \in 1..Len(entityRules[i].keywords) } : i \in 1..Len(entityRules) }
  \cup { templates[i].value : i \in 1..Len(templates) }

\* the descriptions the schema generator tests pass to generateDataModel
ModelDescriptions == { <<"U","s","e","r"," ","l","o","g","i","n"," ","f","l","o","w">>, <<"C","h","e","c","k","o","u","t"," ","f","l","o","w">> }

\* the descriptions generateWorkflow is called with: those of the workflow
\* service tests, the end-to-end example and one of no category
RunDescriptions ==
  { <<"o","n","l","i","n","e"," ","s","h","o","p","p","i","n","g"," ","c","a","r","t">>, <<"u","s","e","r"," ","l","o","g","i","n"," ","w","i","t","h"," ","p","a","s","s","w","o","r","d">>,
    CheckoutDescription, <<"S","o","m","e","t","h","i","n","g"," ","c","o","m","p","l","e","t","e","l","y"," ","r","a","n","d","o","m"," ","a","n","d"," ","u","n","i","q","u","e">> }

\* the entity names generateEntitySchema is called with: the keys of the
\* schema table, names of no schema, and names every object inherits
EntityNames ==
  { schemas[i].key : i \in 1..Len(schemas) }
  \cup { <<"I","n","v","o","i","c","e">>, <<"u","s","e","r">>, <<>>, <<"c","o","n","s","t","r","u","c","t","o","r">>, <<"v","a","l","u","e","O","f">> }

\* a description of n characters, no two neighbours alike
DescriptionOfLength(n) == [k \in 1..n |-> Digits[(k % 10) + 1]]

\* descriptions shorter than, as long as and longer than the limit
LengthDescriptions ==
  { DescriptionOfLength(n) :
      n \in { 0, 1, DescriptionLimit - 1, DescriptionLimit, DescriptionLimit + 1,
              DescriptionLimit + 50 } }
  \cup { CheckoutDescription }


----------------------------------------------------------------------------
(* frontend: lib/api.ts, components/ScenarioInput.tsx, app/page.tsx        *)

\* the generation requests one page makes
MaxGenerations == 3

\* description.trim().length >= 10 of handleSubmit and of the submit button
MinSubmitLength == 10

\* the requests of one page, numbered in the order of their sending
Generations == 1..MaxGenerations

\* what the textarea of ScenarioInput is made to hold, typed or taken from an
\* example button
PageTexts ==
  { <<>>, <<"t","o","o"," ","s","h","o","r","t">>, <<" "," "," ","l","o","g","i","n"," "," "," ","\n">>, <<"U","s","e","r"," ","l","o","g","i","n"," ","f","l","o","w">>,
    <<" ","C","h","e","c","k","o","u","t"," ","f","l","o","w","\n">> }

\* the value a rejected fetch throws
FetchError == [isError |-> TRUE, message |-> <<"F","a","i","l","e","d"," ","t","o"," ","f","e","t","c","h">>]

\* what the fetch of a request with the given description may end in: a
\* response of the scenario controller or a rejection
FetchOutcomes(description) ==
  LET sent == Str(description)
      answers ==
        IF Validate(sent) = "invalid" THEN { InvalidInput }
        ELSE IF Validate(sent) = "short" THEN { TooShort }
        ELSE { Success(generateWorkflow(trim(description), now)) : now \in Times }
             \cup { GenerationFailed(PartialResult(trim(description), Stages[k], 0)) :
                      k \in 1..Len(Stages) }
  IN  { [kind |-> "response", response |-> a] : a \in answers }
      \cup { [kind |-> "rejected", err |-> FetchError] }

\* generateScenario of lib/api.ts from the outcome of its fetch on: the value
\* it resolves with or the error it throws
generateScenario(outcome) ==
  IF outcome.kind = "rejected" THEN [threw |-> TRUE, err |-> outcome.err]
  ELSE LET data == outcome.response.body
       IN  IF outcome.response.status \notin 200..299
           THEN [threw |-> TRUE,
                 err |-> [isError |-> TRUE,
                          message |-> IF Len(data.message) > 0 THEN data.message
                                      ELSE <<"F","a","i","l","e","d"," ","t","o"," ","g","e","n","e","r","a","t","e"," ","s","c","e","n","a","r","i","o">>]]
           ELSE [threw |-> FALSE, value |-> data]

\* Home and ScenarioInput after mounting. requests holds the calls of
\* generateScenario not yet settled, sent counts them; resultOf (the
\* description result was generated from) and completed (how the latest
\* settled generation ended) record history and are not state of the page.
InitialPage ==
  [description |-> <<>>, isLoading |-> FALSE, error |-> Null, result |-> Null,
   inputDescription |-> <<>>, requests |-> {}, sent |-> 0,
   resultOf |-> Null, completed |-> "none"]

\* the submit and the Regenerate button enabled whatever isLoading is
ControlsDisabled_Never(p) == FALSE

\* disabled={isLoading} of the submit and of the Regenerate button
ControlsDisabled(p) == p.isLoading

\* {result && result.data && (...)}: the results section is rendered
ResultsShown(p) == p.result # Null /\ "data" \in DOMAIN p.result

\* handleGenerate up to its await
handleGenerate(p, description) ==
  [p EXCEPT !.isLoading = TRUE,
            !.error = Null,
            !.inputDescription = description,
            !.requests = @ \cup { [id |-> p.sent + 1, description |-> description] },
            !.sent = @ + 1]

\* handleGenerate from its await on, the fetch of request req having ended
\* in outcome
handleGenerateResume(p, req, outcome) ==
  LET settled == generateScenario(outcome)
      left == [p EXCEPT !.requests = @ \ {req}, !.isLoading = FALSE]
  IN  IF settled.threw
      THEN [left EXCEPT !.error = IF settled.err.isError THEN Str(settled.err.message)
                                  ELSE Str(<<"A","n"," ","u","n","e","x","p","e","c","t","e","d"," ","e","r","r","o","r"," ","o","c","c","u","r","r","e","d">>),
                        !.result = Null,
                        !.resultOf = Null,
                        !.completed = "failure"]
      ELSE [left EXCEPT !.result = settled.value,
                        !.resultOf = Str(req.description),
                        !.completed = "success"]

\* the textarea changed or an example button clicked; both are disabled
\* while isLoading
SetDescription(text) ==
  /\ ~page.isLoading
  /\ page' = [page EXCEPT !.description = text]
  /\ UNCHANGED <<call, pc, body, started, response, runs, mermaid>>

\* the submit button clicked: handleSubmit
Submit ==
  /\ ~(ControlsDisabled(page) \/ Len(trim(page.description)) < MinSubmitLength)
  /\ page.sent < MaxGenerations
  /\ page' = IF Len(trim(page.description)) >= MinSubmitLength
             THEN handleGenerate(page, page.description)
             ELSE page
  /\ UNCHANGED <<call, pc, body, started, response, runs, mermaid>>

\* the Regenerate button of the results section clicked: handleRegenerate
Regenerate ==
  /\ ResultsShown(page)
  /\ ~ControlsDisabled(page)
  /\ page.sent < MaxGenerations
  /\ page' = IF page.inputDescription # <<>>
             THEN handleGenerate(page, page.inputDescription)
             ELSE page
  /\ UNCHANGED <<call, pc, body, started, response, runs, mermaid>>

\* the fetch of a request ends and handleGenerate runs to its end
Settles(id) ==
  /\ \E req \in page.requests :
       /\ req.id = id
       /\ \E outcome \in FetchOutcomes(req.description) :
            page' = handleGenerateResume(page, req, outcome)
  /\ UNCHANGED <<call, pc, body, started, response, runs, mermaid>>

----------------------------------------------------------------------------
(* frontend: components/MermaidDiagram.tsx                                 *)

\* the changes of the diagram prop while the component is mounted
MaxPropChanges == 2

\* the values of the diagram prop: result.data.mermaid_diagram of two
\* generations, and the empty string
DiagramProps ==
  { <<>>,
    generateWorkflow(<<"U","s","e","r"," ","l","o","g","i","n"," ","f","l","o","w">>, 0).mermaid_diagram,
    generateWorkflow(<<"C","h","e","c","k","o","u","t"," ","f","l","o","w">>, 0).mermaid_diagram }

\* the renders started between a mount and the unmount
Renders == 1..(MaxPropChanges + 1)

\* the component not mounted: the diagram tab is not the active one or no
\* result is shown
Unmounted == [mounted |-> FALSE]

\* innerHTML of the container: '' and the svg mermaid.render made of a diagram
EmptyHtml == [svgOf |-> Null]
Svg(diagram) == [svgOf |-> Str(diagram)]

\* setError('Failed to render diagram. The diagram syntax may be invalid.')
RenderError == Str(<<"F","a","i","l","e","d"," ","t","o"," ","r","e","n","d","e","r"," ","d","i","a","g","r","a","m","."," ","T","h","e"," ","d","i","a","g","r","a","m"," ","s","y","n","t","a","x"," ","m","a","y"," ","b","e"," ","i","n","v","a","l","i","d",".">>)

\* The JSX returned for the state m is committed: the div holding
\* containerRef exists when neither the 'No diagram available' branch nor
\* the error branch is returned. A div that stays keeps its innerHTML, a div
\* newly made is empty, and with no div containerRef.current is null.
Commit(m) ==
  IF m.diagram = <<>> \/ m.error # Null
  THEN [m EXCEPT !.container = Null]
  ELSE IF m.container = Null THEN [m EXCEPT !.container = EmptyHtml] ELSE m

\* the effect of [diagram]: renderDiagram up to its first await. errorOf (the
\* diagram of the render that set error) records history.
renderDiagram(m) ==
  IF m.container = Null \/ m.diagram = <<>> THEN m
  ELSE Commit([m EXCEPT !.isLoading = TRUE,
                        !.error = Null,
                        !.errorOf = Null,
                        !.renders = @ \cup { [id |-> m.started + 1, diagram |-> m.diagram,
                                               at |-> "import"] },
                        !.started = @ + 1])

\* the catch and the finally block of the render of the given diagram
renderDiagramCatch(m, diagram) ==
  Commit([m EXCEPT !.error = RenderError, !.errorOf = Str(diagram),
                   !.isLoading = FALSE])

\* the component mounted with the given prop: first render, commit, effect
Mount(diagram) ==
  /\ ~mermaid.mounted
  /\ mermaid' = renderDiagram(Commit(
                   [mounted |-> TRUE, diagram |-> diagram, error |-> Null,
                    errorOf |-> Null, isLoading |-> TRUE, container |-> Null,
                    renders |-> {}, started |-> 0, changes |-> 0]))
  /\ UNCHANGED <<call, pc, body, started, response, runs, page>>

\* the parent renders the component with another diagram: commit, effect
PropChanges(diagram) ==
  /\ mermaid.mounted
  /\ mermaid.changes < MaxPropChanges
  /\ diagram # mermaid.diagram
  /\ mermaid' = renderDiagram(Commit([mermaid EXCEPT !.diagram = diagram,
                                                      !.changes = @ + 1]))
  /\ UNCHANGED <<call, pc, body, started, response, runs, page>>

\* import('mermaid') of a render resolves: initialize, then the container is
\* cleared and mermaid.render called; with containerRef.current null the
\* assignment to innerHTML throws
ImportResolves(id) ==
  /\ mermaid.mounted
  /\ \E r \in mermaid.renders :
       /\ r.id = id
       /\ r.at = "import"
       /\ mermaid' =
            IF mermaid.container = Null
            THEN renderDiagramCatch([mermaid EXCEPT !.renders = @ \ {r}], r.diagram)
            ELSE [mermaid EXCEPT !.container = EmptyHtml,
                                 !.renders = (@ \ {r}) \cup { [r EXCEPT !.at = "render"] }]
  /\ UNCHANGED <<call, pc, body, started, response, runs, page>>

\* mermaid.render of a render settles: resolved with the svg, or rejected
RenderSettles(id, resolved) ==
  /\ mermaid.mounted
  /\ \E r \in mermaid.renders :
       /\ r.id = id
       /\ r.at = "render"
       /\ mermaid' =
            LET left == [mermaid EXCEPT !.renders = @ \ {r}]
            IN  IF resolved
                THEN [left EXCEPT !.container = IF @ = Null THEN Null ELSE Svg(r.diagram),
                                  !.isLoading = FALSE]
                ELSE renderDiagramCatch(left, r.diagram)
  /\ UNCHANGED <<call, pc, body, started, response, runs, page>>

\* the component unmounted: its state is dropped, and the renders still
\* running find containerRef.current null and set state of no component
Unmount ==
  /\ mermaid.mounted
  /\ mermaid' = Unmounted
  /\ UNCHANGED <<call, pc, body, started, response, runs, page>>
----------------------------------------------------------------------------
(* UnitSpec: one exported function called per step.                        *)

NoCall == [fn |-> "none"]

CallAnalyzeDescription(description) ==
  /\ call = NoCall
  /\ call' = [fn |-> "analyzeDescription", description |-> description,
              ret |-> analyzeDescription(description)]
  /\ UNCHANGED <<pc, body, started, response, runs, page, mermaid>>

CallGenerateStepsForType(type, description) ==
  /\ call = NoCall
  /\ call' = [fn |-> "generateStepsForType", type |-> type,
              ret |-> generateStepsForType(type, description)]
  /\ UNCHANGED <<pc, body, started, response, runs, page, mermaid>>

CallGenerateSummary(type, description) ==
  /\ call = NoCall
  /\ call' = [fn |-> "generateSummary", type |-> type,
              ret |-> generateSummary(type, description)]
  /\ UNCHANGED <<pc, body, started, response, runs, page, mermaid>>

CallGenerateMermaidDiagram(workflow) ==
  /\ call = NoCall
  /\ call' = [fn |-> "generateMermaidDiagram", workflow |-> workflow,
              ret |-> generateMermaidDiagram(workflow),
              after |-> WorkflowAfterDiagram(workflow)]
  /\ UNCHANGED <<pc, body, started, response, runs, page, mermaid>>

CallEscapeLabel(text) ==
  /\ call = NoCall
  /\ call' = [fn |-> "escapeLabel", text |-> text, ret |-> escapeLabel(text)]
  /\ UNCHANGED <<pc, body, started, response, runs, page, mermaid>>

CallExtractEntities(workflow) ==
  /\ call = NoCall
  /\ call' = [fn |-> "extractEntities", workflow |-> workflow,
              ret |-> extractEntities(workflow)]
  /\ UNCHANGED <<pc, body, started, response, runs, page, mermaid>>

CallGenerateEntitySchema(entity) ==
  /\ call = NoCall
  /\ call' = [fn |-> "generateEntitySchema", entity |-> entity,
              ret |-> generateEntitySchema(entity)]
  /\ UNCHANGED <<pc, body, started, response, runs, page, mermaid>>

CallGenerateDataModel(workflow, description) ==
  /\ call = NoCall
  /\ call' = [fn |-> "generateDataModel", workflow |-> workflow,
              description |-> description,
              ret |-> generateDataModel(workflow, description),
              after |-> WorkflowAfterDataModel(workflow)]
  /\ UNCHANGED <<pc, body, started, response, runs, page, mermaid>>

\* mockAIGenerate called and awaited; now is the clock reading after the delay
CallMockAIGenerate(description, now) ==
  /\ call = NoCall
  /\ call' = [fn |-> "mockAIGenerate", description |-> description,
              ret |-> mockAIGenerate(description, now)]
  /\ UNCHANGED <<pc, body, started, response, runs, page, mermaid>>

\* generateWorkflow called and awaited
CallGenerateWorkflow(description, now) ==
  /\ call = NoCall
  /\ call' = [fn |-> "generateWorkflow", description |-> description,
              ret |-> generateWorkflow(description, now)]
  /\ UNCHANGED <<pc, body, started, response, runs, page, mermaid>>

\* the call has returned and its caller goes on
Return ==
  /\ call # NoCall
  /\ call' = NoCall
  /\ UNCHANGED <<pc, body, started, response, runs, page, mermaid>>

----------------------------------------------------------------------------
(* Spec: generateScenario serving POST /api/scenario.                      *)

\* the return left out before the response for a description too short: the
\* handler answers 400 and goes on to call generateWorkflow
Receive_NoReturn(r, description) ==
  /\ pc[r] = "idle"
  /\ body' = [body EXCEPT ![r] = description]
  /\ CASE Validate(description) = "invalid" ->
            /\ response' = [response EXCEPT ![r] = Append(@, InvalidInput)]
            /\ pc' = [pc EXCEPT ![r] = "done"]
            /\ UNCHANGED started
       [] Validate(description) = "short" ->
            /\ response' = [response EXCEPT ![r] = Append(@, TooShort)]
            /\ started' = [started EXCEPT ![r] = Append(@, trim(description.chars))]
            /\ pc' = [pc EXCEPT ![r] = "waiting"]
       [] OTHER ->
            /\ started' = [started EXCEPT ![r] = Append(@, trim(description.chars))]
            /\ pc' = [pc EXCEPT ![r] = "waiting"]
            /\ UNCHANGED response
  /\ UNCHANGED <<call, runs, page, mermaid>>

\* generateScenario from its entry to a validation response or to the await
Receive(r, description) ==
  /\ pc[r] = "idle"
  /\ body' = [body EXCEPT ![r] = description]
  /\ CASE Validate(description) = "invalid" ->
            /\ response' = [response EXCEPT ![r] = Append(@, InvalidInput)]
            /\ pc' = [pc EXCEPT ![r] = "done"]
            /\ UNCHANGED started
       [] Validate(description) = "short" ->
            /\ response' = [response EXCEPT ![r] = Append(@, TooShort)]
            /\ pc' = [pc EXCEPT ![r] = "done"]
            /\ UNCHANGED started
       [] OTHER ->
            /\ started' = [started EXCEPT ![r] = Append(@, trim(description.chars))]
            /\ pc' = [pc EXCEPT ![r] = "waiting"]
            /\ UNCHANGED response
  /\ UNCHANGED <<call, runs, page, mermaid>>

\* the setTimeout of mockAIGenerate fires and every stage returns
TimerFires(r, now) ==
  /\ pc[r] = "waiting"
  /\ response' = [response EXCEPT ![r] =
                    Append(@, Success(generateWorkflow(started[r][1], now)))]
  /\ pc' = [pc EXCEPT ![r] = "done"]
  /\ UNCHANGED <<call, body, started, runs, page, mermaid>>

\* the setTimeout fires and a stage throws: control reaches the catch block.
\* The mock stages do not throw on a validated description; the throw is a
\* fault of the environment (a stage replaced by a real LLM call, say).
StageThrows(r, stage, now) ==
  /\ pc[r] = "waiting"
  /\ response' = [response EXCEPT ![r] =
                    Append(@, GenerationFailed(PartialResult(started[r][1], stage, now)))]
  /\ pc' = [pc EXCEPT ![r] = "failed"]
  /\ UNCHANGED <<call, body, started, runs, page, mermaid>>

----------------------------------------------------------------------------
(* RunsSpec: generateWorkflow called directly, the runs interleaving.      *)

\* a run that has not been started
IdleRun == [pc |-> "idle"]

\* the templates, schemas and relationshipMap literals made module-level
\* constants, evaluated once when the module loads
LiteralScope_Module(r) == 0

\* The object literals templates, schemas and relationshipMap stand inside the
\* function bodies, so every call evaluates them anew: the objects run r
\* builds belong to run r alone (0 would be the scope of the module).
LiteralScope(r) == r

\* the clock reading when a run resolves: it has advanced past that of every
\* run resolved before
RunClock == Cardinality({ q \in Runs : runs[q].pc = "done" })

\* the runs whose caller has changed the template array that run r returns:
\* an array of the same literal scope and the same category
EditsSeenBy(r) ==
  { q \in Runs :
      /\ runs[q].pc = "done"
      /\ runs[q].edited
      /\ LiteralScope(q) = LiteralScope(r)
      /\ runs[q].aiResponse.metadata.detectedType
           = analyzeDescription(runs[r].description).type }

\* result.workflow[0].name = 'edited', as a caller may write
EditResult(result) ==
  [result EXCEPT !.workflow.items[1].name = <<"e","d","i","t","e","d">>]

\* what generateWorkflow resolves with for run r
RunResult(r, now) ==
  LET result == generateWorkflow(runs[r].description, now)
  IN  IF EditsSeenBy(r) = {} THEN result ELSE EditResult(result)

\* generateWorkflow(description) called: it runs to the await of the
\* simulated latency in mockAIGenerate
StartRun(r, description) ==
  /\ runs[r].pc = "idle"
  /\ runs' = [runs EXCEPT ![r] = [pc |-> "waiting", description |-> description]]
  /\ UNCHANGED <<call, pc, body, started, response, page, mermaid>>

\* the setTimeout of run r fires: mockAIGenerate resolves, the diagram and the
\* data model are built and the promise of generateWorkflow resolves
RunTimerFires(r) ==
  /\ runs[r].pc = "waiting"
  /\ runs' = [runs EXCEPT ![r] =
                [pc |-> "done", description |-> runs[r].description,
                 aiResponse |-> mockAIGenerate(runs[r].description, RunClock),
                 result |-> RunResult(r, RunClock),
                 edited |-> FALSE]]
  /\ UNCHANGED <<call, pc, body, started, response, page, mermaid>>

\* the caller of run r changes the result object it was handed; result keeps
\* the value the run resolved with
CallerEdits(r) ==
  /\ runs[r].pc = "done"
  /\ ~runs[r].edited
  /\ runs' = [runs EXCEPT ![r].edited = TRUE]
  /\ UNCHANGED <<call, pc, body, started, response, page, mermaid>>

----------------------------------------------------------------------------

Init ==
  /\ call = NoCall
  /\ pc = [r \in Requests |-> "idle"]
  /\ body = [r \in Requests |-> Undefined]
  /\ started = [r \in Requests |-> <<>>]
  /\ response = [r \in Requests |-> <<>>]
  /\ runs = [r \in Runs |-> IdleRun]
  /\ page = InitialPage
  /\ mermaid = Unmounted

UnitNext ==
  \/ \E d \in Descriptions : CallAnalyzeDescription(d)
  \/ \E type \in TypeValues : CallGenerateStepsForType(type, <<>>)
  \/ \E type \in TypeValues : CallGenerateSummary(type, <<>>)
  \/ \E w \in Workflows : CallGenerateMermaidDiagram(w)
  \/ \E text \in Labels : CallEscapeLabel(text)
  \/ \E w \in EntityWorkflows : CallExtractEntities(w)
  \/ \E entity \in EntityNames : CallGenerateEntitySchema(entity)
  \/ \E w \in EntityWorkflows, d \in ModelDescriptions : CallGenerateDataModel(w, d)
  \/ \E d \in LengthDescriptions : CallGenerateDataModel(MakeEntityWorkflow(<<1>>), d)
  \/ \E d \in DocumentedDescriptions, now \in Times : CallMockAIGenerate(d, now)
  \/ \E d \in DocumentedDescriptions, now \in Times : CallGenerateWorkflow(d, now)
  \/ Return

UnitSpec == Init /\ [][UnitNext]_vars

Next ==
  \/ \E r \in Requests, d \in Bodies : Receive(r, d)
  \/ \E r \in Requests, now \in Times : TimerFires(r, now)
  \/ \E r \in Requests, k \in 1..Len(Stages), now \in Times : StageThrows(r, Stages[k], now)

Spec == Init /\ [][Next]_vars

\* request r leaves its wait: the step of TimerFires or StageThrows as it shows
\* on pc. The timer of setTimeout is set for at most 150 ms and the event
\* loop runs it, so the step is taken in the end.
Resumes(r) ==
  /\ pc[r] = "waiting"
  /\ \E to \in {"done", "failed"} : pc' = [pc EXCEPT ![r] = to]

\* Spec with every timer that was set firing in the end
FairSpec == Spec /\ \A r \in Requests : WF_pc(Resumes(r))

RunsNext ==
  \/ \E r \in Runs, d \in RunDescriptions : StartRun(r, d)
  \/ \E r \in Runs : RunTimerFires(r)
  \/ \E r \in Runs : CallerEdits(r)

RunsSpec == Init /\ [][RunsNext]_vars


PageNext ==
  \/ \E text \in PageTexts : SetDescription(text)
  \/ Submit
  \/ Regenerate
  \/ \E id \in Generations : Settles(id)

PageSpec == Init /\ [][PageNext]_vars

DiagramNext ==
  \/ \E diagram \in DiagramProps : Mount(diagram)
  \/ \E diagram \in DiagramProps : PropChanges(diagram)
  \/ \E id \in Renders : ImportResolves(id)
  \/ \E id \in Renders, resolved \in BOOLEAN : RenderSettles(id, resolved)
  \/ Unmount

DiagramSpec == Init /\ [][DiagramNext]_vars

\* render id goes on from one of its awaits: the promise of import() and the
\* promise of mermaid.render settle, and the event loop runs what awaits them
RenderProceeds(id) ==
  \/ ImportResolves(id)
  \/ \E resolved \in BOOLEAN : RenderSettles(id, resolved)

\* DiagramSpec with every render going on from its awaits in the end
FairDiagramSpec == DiagramSpec /\ \A id \in Renders : WF_mermaid(RenderProceeds(id))
----------------------------------------------------------------------------
(* Helpers of the properties: a diagram text read back as lines and edges. *)

\* the pieces of text between the occurrences of the character sep
Split(text, sep) ==
  LET cuts == {i \in 1..Len(text) : text[i] = sep}
      n == Cardinality(cuts) + 1
      cutAt(k) == IF k = 0 THEN 0
                  ELSE IF k = n THEN Len(text) + 1
                  ELSE CHOOSE i \in cuts : Cardinality({j \in cuts : j < i}) = k - 1
  IN  [k \in 1..n |-> SubSeq(text, cutAt(k - 1) + 1, cutAt(k) - 1)]

StartsWith(text, prefix) ==
  Len(text) >= Len(prefix) /\ SubSeq(text, 1, Len(prefix)) = prefix

Arrows == { <<"-","-",">">>, <<"-","-",">","|","Y","e","s","|">>, <<"-",".","-",">","|","N","o","|">> }

\* an edge line is "  from arrow to", outside any quoted label
IsEdgeLine(line) ==
  /\ \A i \in 1..Len(line) : line[i] # "\""
  /\ LET tokens == Split(line, " ")
     IN  Len(tokens) = 5 /\ tokens[1] = <<>> /\ tokens[2] = <<>> /\ tokens[4] \in Arrows

EdgeOfLine(line) ==
  LET tokens == Split(line, " ")
  IN  [from |-> tokens[3], to |-> tokens[5],
       kind |-> IF tokens[4] = <<"-","-",">">> THEN "default"
                ELSE IF tokens[4] = <<"-","-",">","|","Y","e","s","|">> THEN "Yes"
                ELSE "dashed No"]

\* the edge lines of a diagram text, in order
EdgeLines(diagram) == SelectSeq(Split(diagram, "\n"), IsEdgeLine)

EdgesOf(diagram) ==
  LET lines == EdgeLines(diagram) IN {EdgeOfLine(lines[k]) : k \in 1..Len(lines)}

----------------------------------------------------------------------------
(* C1 *)

C1_Order ==
  << <<"e","c","o","m","m","e","r","c","e">>, <<"a","u","t","h">>, <<"b","o","o","k","i","n","g">>, <<"s","u","p","p","o","r","t">>, <<"c","o","n","t","e","n","t">>, <<"w","o","r","k","f","l","o","w">>,
     <<"d","a","t","a">>, <<"n","o","t","i","f","i","c","a","t","i","o","n">> >>

\* the positions in C1_Order of the categories with a keyword in the lower-cased text
C1_Hits(description) ==
  {i \in 1..Len(C1_Order) :
     \E k \in 1..Len(Own(types, C1_Order[i])) :
        Includes(toLowerCase(description), Own(types, C1_Order[i])[k])}

\* C1: analyzeDescription returns the first category, in the order ecommerce,
\* auth, booking, support, content, workflow, data, notification, one of whose
\* keywords is a substring of the lower-cased description, and general when no
\* keyword occurs; a description with an ecommerce keyword is ecommerce.
C1_FirstMatchingCategory ==
  call.fn = "analyzeDescription" =>
    LET hits == C1_Hits(call.description)
    IN  /\ hits = {} => call.ret.type = <<"g","e","n","e","r","a","l">>
        /\ hits # {} =>
             call.ret.type = C1_Order[CHOOSE i \in hits : \A j \in hits : i <= j]
        /\ 1 \in hits => call.ret.type = <<"e","c","o","m","m","e","r","c","e">>

\* a description with keywords of several categories, an upper-case one among them
C1_Witness ==
  /\ call.fn = "analyzeDescription"
  /\ Cardinality(C1_Hits(call.description)) >= 2
  /\ call.description # toLowerCase(call.description)
  /\ call.ret.type = <<"e","c","o","m","m","e","r","c","e">>

----------------------------------------------------------------------------
(* C2 *)

C2_ReadmeTable ==
  << [example |-> <<"O","n","l","i","n","e"," ","s","t","o","r","e"," ","c","h","e","c","k","o","u","t">>,     type |-> <<"e","c","o","m","m","e","r","c","e">>],
     [example |-> <<"U","s","e","r"," ","r","e","g","i","s","t","r","a","t","i","o","n"," ","f","l","o","w">>,    type |-> <<"a","u","t","h">>],
     [example |-> <<"D","o","c","t","o","r"," ","a","p","p","o","i","n","t","m","e","n","t"," ","s","y","s","t","e","m">>, type |-> <<"b","o","o","k","i","n","g">>],
     [example |-> <<"C","u","s","t","o","m","e","r"," ","s","u","p","p","o","r","t"," ","w","o","r","k","f","l","o","w">>, type |-> <<"s","u","p","p","o","r","t">>],
     [example |-> <<"B","l","o","g"," ","p","u","b","l","i","s","h","i","n","g"," ","p","r","o","c","e","s","s">>,   type |-> <<"c","o","n","t","e","n","t">>],
     [example |-> <<"D","o","c","u","m","e","n","t"," ","a","p","p","r","o","v","a","l"," ","f","l","o","w">>,    type |-> <<"w","o","r","k","f","l","o","w">>],
     [example |-> <<"D","a","t","a"," ","m","i","g","r","a","t","i","o","n"," ","p","i","p","e","l","i","n","e">>,   type |-> <<"d","a","t","a">>],
     [example |-> <<"N","o","t","i","f","i","c","a","t","i","o","n"," ","s","y","s","t","e","m">>,       type |-> <<"n","o","t","i","f","i","c","a","t","i","o","n">>] >>

\* C2: every example of the README table 'Supported Scenario Types' is
\* classified as the type of its row.
C2_ReadmeExamples ==
  call.fn = "analyzeDescription" =>
    \A k \in 1..Len(C2_ReadmeTable) :
      call.description = C2_ReadmeTable[k].example => call.ret.type = C2_ReadmeTable[k].type

----------------------------------------------------------------------------
(* C3 *)

\* C3: the pipeline run on the checkout description yields category ecommerce,
\* a workflow of exactly 10 steps, a diagram whose text starts with graph TD,
\* and a data model with the entities Product and Order and a relationship
\* between Order and Product.
C3_CheckoutEndToEnd ==
  /\ call.fn = "mockAIGenerate" /\ call.description = CheckoutDescription
       => call.ret.metadata.detectedType = <<"e","c","o","m","m","e","r","c","e">>
  /\ call.fn = "generateWorkflow" /\ call.description = CheckoutDescription
       => /\ call.ret.workflow.t = "array"
          /\ Len(call.ret.workflow.items) = 10
          /\ StartsWith(call.ret.mermaid_diagram, <<"g","r","a","p","h"," ","T","D">>)
          /\ \E k \in 1..Len(call.ret.data_model.entities) :
                call.ret.data_model.entities[k].key = <<"P","r","o","d","u","c","t">>
          /\ \E k \in 1..Len(call.ret.data_model.entities) :
                call.ret.data_model.entities[k].key = <<"O","r","d","e","r">>
          /\ \E k \in 1..Len(call.ret.data_model.relationships) :
                {call.ret.data_model.relationships[k].from,
                 call.ret.data_model.relationships[k].to} = {<<"O","r","d","e","r">>, <<"P","r","o","d","u","c","t">>}

C3_Witness ==
  /\ call.fn = "generateWorkflow"
  /\ call.description = CheckoutDescription
  /\ Len(call.ret.data_model.relationships) > 0

----------------------------------------------------------------------------
(* C4 *)

C4_Accepted(description) ==
  description.t = "string" /\ Len(trim(description.chars)) >= 10

\* C4: the handler starts the pipeline if and only if description is a string
\* whose trimmed length is at least 10, and passes it the trimmed description;
\* a missing, non-string or empty description gets 400 'Invalid input', a
\* string trimmed to fewer than 10 characters gets 400 'Description too short',
\* and a rejected request never starts the pipeline.
C4_Validation ==
  \A r \in Requests :
    pc[r] # "idle" =>
      /\ (started[r] # <<>>) <=> C4_Accepted(body[r])
      /\ C4_Accepted(body[r]) => started[r] = << trim(body[r].chars) >>
      /\ (body[r].t # "string" \/ body[r].chars = <<>>) =>
           /\ Len(response[r]) = 1
           /\ response[r][1].status = 400
           /\ response[r][1].body.error = <<"I","n","v","a","l","i","d"," ","i","n","p","u","t">>
      /\ (body[r].t = "string" /\ body[r].chars # <<>> /\ ~C4_Accepted(body[r])) =>
           /\ Len(response[r]) = 1
           /\ response[r][1].status = 400
           /\ response[r][1].body.error = <<"D","e","s","c","r","i","p","t","i","o","n"," ","t","o","o"," ","s","h","o","r","t">>

\* a string of 10 or more characters rejected for its trimmed length, and one
\* accepted whose trimmed text differs from what was sent
C4_Witness ==
  /\ \E r \in Requests :
       /\ pc[r] = "done" /\ body[r].t = "string" /\ Len(body[r].chars) >= 10
       /\ started[r] = <<>>
       /\ response[r][1].body.error = <<"D","e","s","c","r","i","p","t","i","o","n"," ","t","o","o"," ","s","h","o","r","t">>
  /\ \E r \in Requests :
       /\ pc[r] # "idle" /\ body[r].t = "string"
       /\ started[r] # <<>> /\ started[r][1] # body[r].chars

----------------------------------------------------------------------------
(* C5 *)

C5_ResultFields == {"workflow", "mermaid_diagram", "data_model", "summary"}

\* C5: when a stage throws, the caller receives only the generic 'Generation
\* failed' response with status 500 and no part of a result; every response
\* carries either the complete four-part result or no result field at all.
C5_AllOrNothing ==
  \A r \in Requests :
    /\ pc[r] = "failed" =>
         /\ Len(response[r]) = 1
         /\ response[r][1].status = 500
         /\ response[r][1].body.error = <<"G","e","n","e","r","a","t","i","o","n"," ","f","a","i","l","e","d">>
         /\ DOMAIN response[r][1].body \cap ({"data", "success"} \cup C5_ResultFields) = {}
    /\ \A k \in 1..Len(response[r]) :
         \/ /\ response[r][k].status = 200
            /\ "data" \in DOMAIN response[r][k].body
            /\ DOMAIN response[r][k].body.data = C5_ResultFields
         \/ DOMAIN response[r][k].body \cap ({"data"} \cup C5_ResultFields) = {}

\* one request answered with a result while another has failed
C5_Witness ==
  \E r, q \in Requests :
    /\ pc[r] = "failed" /\ Len(response[r]) = 1
    /\ pc[q] = "done" /\ Len(response[q]) = 1 /\ response[q][1].status = 200

----------------------------------------------------------------------------
(* C6 *)

\* C6: for every category value, recognized or not, generateStepsForType
\* returns a non-empty sequence whose ids are 1, 2, ..., n in sequence order.
C6_SequentialIds ==
  call.fn = "generateStepsForType" =>
    /\ call.ret.t = "array"
    /\ Len(call.ret.items) > 0
    /\ \A k \in 1..Len(call.ret.items) : call.ret.items[k].id = k

----------------------------------------------------------------------------
(* C7 *)

C7_StepKinds ==
  { <<"t","r","i","g","g","e","r">>, <<"e","n","d">>, <<"u","s","e","r","_","i","n","p","u","t">>, <<"u","s","e","r","_","a","c","t","i","o","n">>, <<"s","y","s","t","e","m","_","a","c","t","i","o","n">>,
    <<"s","y","s","t","e","m","_","c","h","e","c","k">>, <<"d","a","t","a","b","a","s","e","_","q","u","e","r","y">>, <<"d","a","t","a","b","a","s","e","_","w","r","i","t","e">>, <<"d","e","c","i","s","i","o","n">>,
    <<"c","o","n","d","i","t","i","o","n","a","l">>, <<"n","o","t","i","f","i","c","a","t","i","o","n">>, <<"n","a","v","i","g","a","t","i","o","n">>, <<"d","i","s","p","l","a","y">>, <<"l","o","g","g","i","n","g">>,
    <<"i","n","t","e","g","r","a","t","i","o","n">>, <<"r","e","v","i","e","w">>, <<"w","o","r","k","f","l","o","w","_","a","c","t","i","o","n">>, <<"a","i","_","p","r","o","c","e","s","s">>,
    <<"d","a","t","a","_","o","p","e","r","a","t","i","o","n">>, <<"e","r","r","o","r","_","h","a","n","d","l","i","n","g">> }

\* C7: the workflow of every recognized category has between 7 and 10 steps,
\* the general template has exactly 10, and every step's type is one of the
\* 20 step kinds.
C7_TemplateShape ==
  call.fn = "generateStepsForType" =>
    /\ (\E i \in 1..Len(C1_Order) : call.type = C1_Order[i]) =>
         /\ call.ret.t = "array"
         /\ 7 <= Len(call.ret.items) /\ Len(call.ret.items) <= 10
         /\ \A k \in 1..Len(call.ret.items) : call.ret.items[k].type \in C7_StepKinds
    /\ call.type = <<"g","e","n","e","r","a","l">> =>
         /\ call.ret.t = "array"
         /\ Len(call.ret.items) = 10
         /\ \A k \in 1..Len(call.ret.items) : call.ret.items[k].type \in C7_StepKinds

\* a recognized category with fewer than 10 steps
C7_Witness ==
  /\ call.fn = "generateStepsForType"
  /\ call.type = <<"a","u","t","h">>
  /\ Len(call.ret.items) = 8

----------------------------------------------------------------------------
(* C8 *)

\* C8: for every category value that is not a key of the template table
\* generateStepsForType returns the general template, and for every value
\* that is not a key of the summary table generateSummary returns the general
\* summary.
C8_GeneralFallback ==
  /\ call.fn = "generateStepsForType" /\ ~HasOwn(templates, call.type)
       => call.ret = Own(templates, <<"g","e","n","e","r","a","l">>)
  /\ call.fn = "generateSummary" /\ ~HasOwn(summaries, call.type)
       => call.ret = Own(summaries, <<"g","e","n","e","r","a","l">>)

----------------------------------------------------------------------------
(* C9 *)

C9_IsBranch(step) == step.type = <<"d","e","c","i","s","i","o","n">> \/ step.type = <<"c","o","n","d","i","t","i","o","n","a","l">>

C9_Node(step) == <<"s","t","e","p">> \o NumToString(step.id)

\* the edges a workflow is to have
C9_Expected(steps) ==
  LET n == Len(steps)
  IN  {[from |-> C9_Node(steps[i]), to |-> C9_Node(steps[i + 1]), kind |-> "default"] :
         i \in {j \in 1..(n - 1) : ~C9_IsBranch(steps[j])}}
      \cup
      {[from |-> C9_Node(steps[i]), to |-> C9_Node(steps[i + 1]), kind |-> "Yes"] :
         i \in {j \in 1..(n - 1) : C9_IsBranch(steps[j])}}
      \cup
      {[from |-> C9_Node(steps[i]), to |-> C9_Node(steps[i + 2]), kind |-> "dashed No"] :
         i \in {j \in 1..(n - 2) : C9_IsBranch(steps[j])}}

\* C9: the edges of the diagram of a non-empty workflow are exactly: from each
\* step but the last, a default edge to the next step, or, from a decision or
\* conditional step, a Yes edge to the next step and, when there is a step
\* after that, a dashed No edge to it; the last step has no outgoing edge.
C9_Edges ==
  (call.fn = "generateMermaidDiagram" /\ call.workflow.t = "array"
     /\ Len(call.workflow.items) > 0) =>
    /\ EdgesOf(call.ret) = C9_Expected(call.workflow.items)
    /\ Len(EdgeLines(call.ret)) = Cardinality(C9_Expected(call.workflow.items))
    /\ \A e \in EdgesOf(call.ret) :
         e.from # C9_Node(call.workflow.items[Len(call.workflow.items)])

\* a branch step with a step to skip to, followed by a branch step without one
C9_Witness ==
  /\ call.fn = "generateMermaidDiagram"
  /\ call.workflow.t = "array"
  /\ Len(call.workflow.items) = 3
  /\ C9_IsBranch(call.workflow.items[1])
  /\ C9_IsBranch(call.workflow.items[2])
  /\ Cardinality(EdgesOf(call.ret)) = 3

----------------------------------------------------------------------------
(* C10 *)

\* C10: for an empty or missing step sequence generateMermaidDiagram returns
\* the header followed by the single placeholder node labeled 'No workflow
\* steps', with no edge, no style definition and no class assignment.
C10_EmptyWorkflow ==
  (call.fn = "generateMermaidDiagram"
     /\ (call.workflow.t \in {"undefined", "null"}
         \/ (call.workflow.t = "array" /\ Len(call.workflow.items) = 0))) =>
    LET lines == Split(call.ret, "\n")
    IN  /\ Len(lines) = 2
        /\ lines[1] = <<"g","r","a","p","h"," ","T","D">>
        /\ lines[2] = <<" "," ","e","m","p","t","y","[","N","o"," ","w","o","r","k","f","l","o","w"," ","s","t","e","p","s","]">>
        /\ EdgeLines(call.ret) = <<>>
        /\ \A k \in 1..Len(lines) :
             ~StartsWith(lines[k], <<" "," ","c","l","a","s","s","D","e","f"," ">>) /\ ~StartsWith(lines[k], <<" "," ","c","l","a","s","s"," ">>)

\* the empty array has been drawn
C10_Witness ==
  /\ call.fn = "generateMermaidDiagram"
  /\ call.workflow.t = "array"
  /\ Len(call.workflow.items) = 0
  /\ Len(call.ret) > 0

----------------------------------------------------------------------------
(* C11 *)

\* what one character of a step name becomes in the label
C11_Char(c) ==
  IF c = "\"" THEN <<"'">>
  ELSE IF c \in {"[", "]", "{", "}", "(", ")"} THEN <<>>
  ELSE IF c = ">" THEN <<"-", ">">>
  ELSE IF c = "<" THEN <<"<", "-">>
  ELSE <<c>>

RECURSIVE C11_Label(_)
C11_Label(text) ==
  IF text = <<>> THEN <<>> ELSE C11_Char(Head(text)) \o C11_Label(Tail(text))

\* C11: escapeLabel(text) is text with every double quote replaced by a single
\* quote, every [ ] { } ( ) removed, every > replaced by -> and every <
\* replaced by <-, the other characters kept in order; 'test "quoted"' becomes
\* "test 'quoted'" and 'test [brackets]' becomes 'test brackets'.
C11_EscapeLabel ==
  call.fn = "escapeLabel" =>
    /\ call.ret = C11_Label(call.text)
    /\ call.text = <<"t","e","s","t"," ","\"","q","u","o","t","e","d","\"">> => call.ret = <<"t","e","s","t"," ","'","q","u","o","t","e","d","'">>
    /\ call.text = <<"t","e","s","t"," ","[","b","r","a","c","k","e","t","s","]">> => call.ret = <<"t","e","s","t"," ","b","r","a","c","k","e","t","s">>

\* a name holding a quote, a parenthesis and both angle brackets has been escaped
C11_Witness ==
  /\ call.fn = "escapeLabel"
  /\ call.text = <<"a"," ","-",">"," ","(","b",")"," ","<","-"," ","\"","c","\"">>
  /\ call.ret = <<"a"," ","-","-",">"," ","b"," ","<","-","-"," ","'","c","'">>

----------------------------------------------------------------------------
(* C12 *)

C12_HasAngle(text) == \E k \in 1..Len(text) : text[k] \in {">", "<"}

\* C12 as stated: escapeLabel is idempotent, escapeLabel(escapeLabel(s)) equals
\* escapeLabel(s) for every string s.
C12_Idempotent ==
  call.fn = "escapeLabel" => escapeLabel(call.ret) = call.ret

\* C12 amended: escapeLabel(escapeLabel(s)) equals escapeLabel(s) exactly for
\* the strings s holding neither > nor <; each > or < of s gains one more -
\* with every further application.
C12_IdempotentWithoutAngles ==
  call.fn = "escapeLabel" =>
    (escapeLabel(call.ret) = call.ret <=> ~C12_HasAngle(call.text))

\* a name without angle brackets that escaping changes has been escaped
C12_Witness ==
  /\ call.fn = "escapeLabel"
  /\ call.text = <<"t","e","s","t"," ","\"","q","u","o","t","e","d","\"">>
  /\ call.ret # call.text
  /\ escapeLabel(call.ret) = call.ret

----------------------------------------------------------------------------
(* C13 *)

\* the characters that close a quoted label or open a shape delimiter
C13_Structural == { "\"", "[", "]", "{", "}", "(", ")" }

C13_Count(text, chars) == Cardinality({ k \in 1..Len(text) : text[k] \in chars })

\* the node lines of a diagram: those between the Nodes comment and the blank
\* line that follows it
C13_NodeLines(diagram) ==
  LET lines == Split(diagram, "\n")
      nodes == CHOOSE k \in 1..Len(lines) : lines[k] = <<" "," ","%","%"," ","N","o","d","e","s">>
      blank == CHOOSE k \in (nodes + 1)..Len(lines) :
                 lines[k] = <<>> /\ \A j \in (nodes + 1)..(k - 1) : lines[j] # <<>>
  IN  SubSeq(lines, nodes + 1, blank - 1)

\* C13: the label placed in the diagram holds no double quote, no square
\* bracket, no brace and no parenthesis, so the quoted label of a node line
\* is not closed early and opens no shape delimiter: the node line of a step
\* is its id, the opening delimiter, the label between the only two double
\* quotes of the line, and the closing delimiter.
C13_NoStructuralCharacter ==
  /\ call.fn = "escapeLabel" => C13_Count(call.ret, C13_Structural) = 0
  /\ (call.fn = "generateMermaidDiagram" /\ ~NoSteps(call.workflow)) =>
       LET steps == call.workflow.items
           lines == C13_NodeLines(call.ret)
       IN  /\ Len(lines) = Len(steps)
           /\ \A k \in 1..Len(steps) :
                LET shape == getNodeShape(steps[k].type)
                    line == lines[k]
                    quotes == { j \in 1..Len(line) : line[j] = "\"" }
                IN  /\ Cardinality(quotes) = 2
                    /\ \E a, b \in quotes :
                         /\ a < b
                         /\ SubSeq(line, 1, a - 1)
                              = <<" "," ">> \o nodeId(steps[k].id) \o ShapeOpen(shape)
                         /\ SubSeq(line, b + 1, Len(line)) = ShapeClose(shape)
                         /\ C13_Count(SubSeq(line, a + 1, b - 1), C13_Structural) = 0

\* a diagram has been drawn of steps whose names hold quotes and brackets
C13_Witness ==
  /\ call.fn = "generateMermaidDiagram"
  /\ ~NoSteps(call.workflow)
  /\ Len(call.workflow.items) >= 3
  /\ C13_Count(call.workflow.items[2].name, {"\""}) = 2
  /\ C13_Count(call.workflow.items[3].name, {"[", "]"}) = 2

----------------------------------------------------------------------------
(* C14 *)

\* the keywords of each entity name, as stated
C14_Keywords ==
  { <<<<"U","s","e","r">>, <<"u","s","e","r">>>>, <<<<"U","s","e","r">>, <<"c","r","e","d","e","n","t","i","a","l">>>>,
    <<<<"P","r","o","d","u","c","t">>, <<"p","r","o","d","u","c","t">>>>, <<<<"P","r","o","d","u","c","t">>, <<"i","t","e","m">>>>,
    <<<<"O","r","d","e","r">>, <<"o","r","d","e","r">>>>, <<<<"O","r","d","e","r">>, <<"p","u","r","c","h","a","s","e">>>>,
    <<<<"C","a","r","t">>, <<"c","a","r","t">>>>,
    <<<<"P","a","y","m","e","n","t">>, <<"p","a","y","m","e","n","t">>>>,
    <<<<"T","i","c","k","e","t">>, <<"t","i","c","k","e","t">>>>, <<<<"T","i","c","k","e","t">>, <<"i","s","s","u","e">>>>,
    <<<<"B","o","o","k","i","n","g">>, <<"b","o","o","k","i","n","g">>>>, <<<<"B","o","o","k","i","n","g">>, <<"r","e","s","e","r","v","a","t","i","o","n">>>>,
    <<<<"B","o","o","k","i","n","g">>, <<"a","p","p","o","i","n","t","m","e","n","t">>>>,
    <<<<"C","o","n","t","e","n","t">>, <<"c","o","n","t","e","n","t">>>>, <<<<"C","o","n","t","e","n","t">>, <<"p","o","s","t">>>>, <<<<"C","o","n","t","e","n","t">>, <<"a","r","t","i","c","l","e">>>>,
    <<<<"N","o","t","i","f","i","c","a","t","i","o","n">>, <<"n","o","t","i","f","i","c","a","t","i","o","n">>>>, <<<<"N","o","t","i","f","i","c","a","t","i","o","n">>, <<"a","l","e","r","t">>>>,
    <<<<"S","e","s","s","i","o","n">>, <<"s","e","s","s","i","o","n">>>>, <<<<"S","e","s","s","i","o","n">>, <<"t","o","k","e","n">>>>,
    <<<<"T","a","s","k">>, <<"t","a","s","k">>>>, <<<<"T","a","s","k">>, <<"w","o","r","k","f","l","o","w">>>> }

\* the entity names with a keyword in the lower-cased text of some step
C14_Named(steps) ==
  { pair[1] : pair \in
      { p \in C14_Keywords :
          \E s \in 1..Len(steps) :
            Includes(toLowerCase(steps[s].name \o <<" ">> \o steps[s].description), p[2]) } }

C14_Members(entities) == { entities[k] : k \in 1..Len(entities) }

\* C14: inferEntities(steps) is exactly the set of entity names with one of
\* their keywords in the lower-cased 'name description' of some step, and
\* {Record} when no keyword occurs; it is never empty, has no duplicates and
\* holds Record only when it holds nothing else.
C14_InferredEntities ==
  call.fn = "extractEntities" =>
    LET named == C14_Named(call.workflow.items)
        members == C14_Members(call.ret)
    IN  /\ members = (IF named = {} THEN { <<"R","e","c","o","r","d">> } ELSE named)
        /\ Len(call.ret) > 0
        /\ Cardinality(members) = Len(call.ret)
        /\ <<"R","e","c","o","r","d">> \in members => members = { <<"R","e","c","o","r","d">> }

\* two steps have named the same entity, one of them through its description
\* only, and another entity besides
C14_Witness ==
  /\ call.fn = "extractEntities"
  /\ Len(call.workflow.items) = 2
  /\ call.workflow.items[1].name = <<"C","h","e","c","k","o","u","t">>
  /\ call.workflow.items[2].name = <<"O","r","d","e","r">>
  /\ call.ret = << <<"U","s","e","r">>, <<"O","r","d","e","r">> >>

----------------------------------------------------------------------------
(* C15 *)

\* some step's lower-cased text contains the word
C15_SomeStepHas(steps, word) ==
  \E s \in 1..Len(steps) :
    Includes(toLowerCase(steps[s].name \o <<" ">> \o steps[s].description), word)

\* C15 as stated: when some step's text contains "password" the inferred
\* entities include User, and when some step's text contains "product" they
\* include Product.
C15_PasswordNamesUser ==
  call.fn = "extractEntities" =>
    /\ C15_SomeStepHas(call.workflow.items, <<"p","a","s","s","w","o","r","d">>)
         => <<"U","s","e","r">> \in C14_Members(call.ret)
    /\ C15_SomeStepHas(call.workflow.items, <<"p","r","o","d","u","c","t">>)
         => <<"P","r","o","d","u","c","t">> \in C14_Members(call.ret)

\* C15 amended: when some step's text contains "user" or "credential", in any
\* letter case, the inferred entities include User ("password" alone names no
\* entity), and when some step's text contains "product" they include Product.
C15_UserOrCredentialNamesUser ==
  call.fn = "extractEntities" =>
    /\ (C15_SomeStepHas(call.workflow.items, <<"u","s","e","r">>)
         \/ C15_SomeStepHas(call.workflow.items, <<"c","r","e","d","e","n","t","i","a","l">>))
         => <<"U","s","e","r">> \in C14_Members(call.ret)
    /\ C15_SomeStepHas(call.workflow.items, <<"p","r","o","d","u","c","t">>)
         => <<"P","r","o","d","u","c","t">> \in C14_Members(call.ret)

\* the step of the test, with "Credentials" and "User" in its text, and the
\* step browsing products have named User and Product
C15_Witness ==
  /\ call.fn = "extractEntities"
  /\ Len(call.workflow.items) = 2
  /\ call.workflow.items[1].name = <<"E","n","t","e","r"," ","C","r","e","d","e","n","t","i","a","l","s">>
  /\ call.workflow.items[2].name = <<"B","r","o","w","s","e">>
  /\ call.ret = << <<"U","s","e","r">>, <<"P","r","o","d","u","c","t">> >>

----------------------------------------------------------------------------
(* C16 *)

\* the entries of the relationship table with both ends among the entities
C16_TableEntries(entities) ==
  { relationshipMap[i].value : i \in
      { n \in 1..Len(relationshipMap) :
          /\ relationshipMap[n].value.from \in entities
          /\ relationshipMap[n].value.to \in entities } }

\* C16: the relationships of buildDataModel are exactly the entries of the
\* fixed relationship table whose from and to entities are both in the
\* inferred entity set, each emitted once: every relationship emitted is such
\* an entry, no unordered pair of entities yields more than one, and no entry
\* with both ends present is left out.
C16_Relationships ==
  call.fn = "generateDataModel" =>
    LET model == call.ret
        entities == { model.entities[k].key : k \in 1..Len(model.entities) }
        rels == model.relationships
    IN  /\ entities = C14_Members(extractEntities(call.workflow))
        /\ { rels[k] : k \in 1..Len(rels) } = C16_TableEntries(entities)
        /\ \A a, b \in 1..Len(rels) :
             a # b => {rels[a].from, rels[a].to} # {rels[b].from, rels[b].to}

\* Product was inferred before Order and User last: four entries found under
\* the reversed key, next to one found under the key in array order
C16_Witness ==
  /\ call.fn = "generateDataModel"
  /\ extractEntities(call.workflow)
       = << <<"P","r","o","d","u","c","t">>, <<"O","r","d","e","r">>, <<"C","a","r","t">>, <<"P","a","y","m","e","n","t">>, <<"U","s","e","r">> >>
  /\ Len(call.ret.relationships) = 5

----------------------------------------------------------------------------
(* C17 *)

----------------------------------------------------------------------------
(* C18 *)

----------------------------------------------------------------------------
(* C19 *)

\* the nine categories
C19_Categories == { C1_Order[i] : i \in 1..Len(C1_Order) } \cup { <<"g","e","n","e","r","a","l">> }

\* C19: the category-to-template table and the category-to-summary table map
\* no two of the nine categories to the same value, so descriptions classified
\* into different categories receive different workflows and different
\* summaries.
C19_DistinctPerCategory ==
  /\ (call.fn = "generateStepsForType" /\ call.type \in C19_Categories) =>
       \A c \in C19_Categories \ {call.type} :
         call.ret # generateStepsForType(c, <<>>)
  /\ (call.fn = "generateSummary" /\ call.type \in C19_Categories) =>
       \A c \in C19_Categories \ {call.type} :
         call.ret # generateSummary(c, <<>>)
  /\ call.fn = "mockAIGenerate" =>
       \A d \in DocumentedDescriptions :
         analyzeDescription(d).type # call.ret.metadata.detectedType =>
           /\ mockAIGenerate(d, 0).workflow # call.ret.workflow
           /\ mockAIGenerate(d, 0).summary # call.ret.summary

\* the template of the data category has been returned, and it is not the
\* general one
C19_Witness ==
  /\ call.fn = "generateStepsForType"
  /\ call.type = <<"d","a","t","a">>
  /\ call.ret.t = "array"
  /\ call.ret # Own(templates, <<"g","e","n","e","r","a","l">>)

----------------------------------------------------------------------------
(* C20 *)

\* C20: the result of a run on d is the composition of the stages on one step
\* sequence: workflow is the template of the category of d, summary the canned
\* summary of that category, diagram the diagram of exactly that workflow and
\* dataModel the data model of exactly that workflow and d. Two descriptions
\* of the same category hence receive the same workflow, diagram, summary,
\* entities and relationships, and differ at most in the description field of
\* the data model.
C20_Composition ==
  \A r \in Runs :
    runs[r].pc = "done" =>
      LET d == runs[r].description
          type == runs[r].aiResponse.metadata.detectedType
          result == runs[r].result
      IN  /\ type = analyzeDescription(d).type
          /\ result.workflow = generateStepsForType(type, d)
          /\ result.summary = generateSummary(type, d)
          /\ result.mermaid_diagram = generateMermaidDiagram(result.workflow)
          /\ result.data_model = generateDataModel(result.workflow, d)
          /\ \A q \in Runs :
               (runs[q].pc = "done" /\ runs[q].aiResponse.metadata.detectedType = type) =>
                 /\ runs[q].result.workflow = result.workflow
                 /\ runs[q].result.mermaid_diagram = result.mermaid_diagram
                 /\ runs[q].result.summary = result.summary
                 /\ runs[q].result.data_model.entities = result.data_model.entities
                 /\ runs[q].result.data_model.relationships = result.data_model.relationships
                 /\ [runs[q].result.data_model EXCEPT !.description = <<>>]
                      = [result.data_model EXCEPT !.description = <<>>]

\* two runs on different descriptions of the ecommerce category have resolved
C20_Witness ==
  /\ runs[1].pc = "done"
  /\ runs[2].pc = "done"
  /\ runs[1].description = CheckoutDescription
  /\ runs[2].description = <<"o","n","l","i","n","e"," ","s","h","o","p","p","i","n","g"," ","c","a","r","t">>
  /\ runs[1].aiResponse.metadata.detectedType = <<"e","c","o","m","m","e","r","c","e">>
  /\ runs[2].aiResponse.metadata.detectedType = <<"e","c","o","m","m","e","r","c","e">>
  /\ runs[1].result.data_model.description # runs[2].result.data_model.description

----------------------------------------------------------------------------
(* C21 *)

\* the delimiter pair of a step type: that of the shape table, the rectangle
\* for a type the table does not hold
C21_Delimiters(type) ==
  IF HasOwn(shapes, type)
  THEN << Own(shapes, type).open, Own(shapes, type).close >>
  ELSE << <<"[">>, <<"]">> >>

\* C21: for a non-empty workflow the diagram declares exactly one node per
\* step, in step order, with identifier 'step' followed by the step's id and
\* the delimiter pair the type-to-shape table gives for the step's type; a
\* step whose type is not in the table gets the rectangle delimiters [ and ].
C21_OneNodePerStep ==
  (call.fn = "generateMermaidDiagram" /\ ~NoSteps(call.workflow)) =>
    LET steps == call.workflow.items
        lines == C13_NodeLines(call.ret)
    IN  /\ Len(lines) = Len(steps)
        /\ \A k \in 1..Len(steps) :
             lines[k] = <<" "," ","s","t","e","p">> \o NumToString(steps[k].id)
                        \o C21_Delimiters(steps[k].type)[1]
                        \o <<"\"">> \o escapeLabel(steps[k].name) \o <<"\"">>
                        \o C21_Delimiters(steps[k].type)[2]

----------------------------------------------------------------------------
(* C22 *)

\* the rules in the order stated, as <<applies, class>>
C22_Rules(type) ==
  << << type \in { <<"t","r","i","g","g","e","r">>, <<"e","n","d">> },           <<"t","r","i","g","g","e","r">> >>,
     << type \in { <<"d","e","c","i","s","i","o","n">>, <<"c","o","n","d","i","t","i","o","n","a","l">> },  <<"d","e","c","i","s","i","o","n">> >>,
     << type = <<"n","o","t","i","f","i","c","a","t","i","o","n">>,                     <<"n","o","t","i","f","i","c","a","t","i","o","n">> >>,
     << Includes(type, <<"d","a","t","a","b","a","s","e">>),                <<"d","a","t","a","b","a","s","e">> >>,
     << Includes(type, <<"s","y","s","t","e","m">>),                  <<"s","y","s","t","e","m">> >>,
     << TRUE,                                        <<"a","c","t","i","o","n">> >> >>

\* the class of the first rule that applies
C22_Class(type) ==
  LET rules == C22_Rules(type)
      first == CHOOSE n \in 1..Len(rules) :
                 rules[n][1] /\ \A m \in 1..(n - 1) : ~rules[m][1]
  IN  rules[first][2]

\* the lines of a diagram that assign a class
C22_ClassLines(diagram) ==
  SelectSeq(Split(diagram, "\n"), LAMBDA line : StartsWith(line, <<" "," ","c","l","a","s","s"," ">>))

\* C22: every node of a non-empty diagram receives exactly one class
\* assignment, that of the first rule that applies in the order: type trigger
\* or end gives trigger; decision or conditional gives decision; notification
\* gives notification; a type name containing 'database' gives database; one
\* containing 'system' gives system; any other type gives action.
C22_OneClassPerNode ==
  (call.fn = "generateMermaidDiagram" /\ ~NoSteps(call.workflow)) =>
    LET steps == call.workflow.items
        lines == C22_ClassLines(call.ret)
    IN  /\ Len(lines) = Len(steps)
        /\ \A k \in 1..Len(steps) :
             lines[k] = <<" "," ","c","l","a","s","s"," ","s","t","e","p">> \o NumToString(steps[k].id) \o <<" ">>
                        \o C22_Class(steps[k].type)

\* a node whose type name holds both system and database has been classed
C22_Witness ==
  /\ call.fn = "generateMermaidDiagram"
  /\ ~NoSteps(call.workflow)
  /\ call.workflow.items[1].type = <<"s","y","s","t","e","m","_","d","a","t","a","b","a","s","e">>
  /\ C22_ClassLines(call.ret) = << <<" "," ","c","l","a","s","s"," ","s","t","e","p","1"," ","d","a","t","a","b","a","s","e">> >>

----------------------------------------------------------------------------
(* C23 *)

\* C23: the entities map of buildDataModel has exactly the inferred entity
\* names as keys, in order of first detection, each mapped to the schema
\* stored under its own name; a name absent from the schema table receives
\* the Record schema, and no entity the inference rules produce takes that
\* fallback, each of the eleven rule entities and Record having its own entry.
C23_EntitySchemas ==
  /\ call.fn = "generateDataModel" =>
       LET entities == call.ret.entities
       IN  /\ [k \in 1..Len(entities) |-> entities[k].key]
                = extractEntities(call.workflow)
           /\ \A k \in 1..Len(entities) :
                /\ HasOwn(schemas, entities[k].key)
                /\ entities[k].value = Own(schemas, entities[k].key)
  /\ call.fn = "generateEntitySchema" =>
       call.ret = (IF HasOwn(schemas, call.entity)
                   THEN Own(schemas, call.entity)
                   ELSE Own(schemas, <<"R","e","c","o","r","d">>))
  /\ \A i \in 1..Len(entityRules) : HasOwn(schemas, entityRules[i].entity)

----------------------------------------------------------------------------
(* C24 *)

C24_Min(a, b) == IF a < b THEN a ELSE b

\* C24: for a description of any length L the description field of the data
\* model is 'Data model generated for: ' followed by the first min(L, 100)
\* characters of the description followed by '...': never more than 100
\* characters of the description, and the '...' whether or not anything was cut.
C24_TruncatedDescription ==
  call.fn = "generateDataModel" =>
    LET d == call.description
        field == call.ret.description
        prefix == <<"D","a","t","a"," ","m","o","d","e","l"," ","g","e","n","e","r","a","t","e","d"," ","f","o","r",":"," ">>
        kept == C24_Min(Len(d), 100)
    IN  /\ field = prefix \o SubSeq(d, 1, kept) \o <<".",".",".">>
        /\ Len(field) <= Len(prefix) + 100 + 3

\* a description one character over the limit has been cut
C24_Witness ==
  /\ call.fn = "generateDataModel"
  /\ Len(call.description) = 101
  /\ Len(call.ret.description) = 26 + 100 + 3
  /\ call.ret.description[26 + 100] = call.description[100]

----------------------------------------------------------------------------
(* C25 *)

----------------------------------------------------------------------------
(* C26 *)

\* the characters of a node identifier
C26_IdChars ==
  { "a","b","c","d","e","f","g","h","i","j","k","l","m","n","o","p","q","r","s",
    "t","u","v","w","x","y","z","0","1","2","3","4","5","6","7","8","9","_" }

\* the identifier a node line declares: what stands between the indent and
\* the first character that is not of an identifier
C26_DeclaredBy(line) ==
  LET ends == { n \in 2..Len(line) : \A j \in 3..n : line[j] \in C26_IdChars }
      last == CHOOSE n \in ends : \A m \in ends : m <= n
  IN  SubSeq(line, 3, last)

\* the identifiers the node section declares, in order
C26_Declared(diagram) ==
  LET lines == C13_NodeLines(diagram)
  IN  [k \in 1..Len(lines) |-> C26_DeclaredBy(lines[k])]

\* C26: for a workflow whose step ids are pairwise distinct the diagram is a
\* well-formed graph: every edge endpoint and every class assignment names a
\* node declared in the node section, the node identifiers are pairwise
\* distinct, and every step but the first has an incoming edge from its
\* immediate predecessor, so that every step is reachable from the first.
C26_WellFormedGraph ==
  (call.fn = "generateMermaidDiagram" /\ ~NoSteps(call.workflow)
     /\ \A a, b \in 1..Len(call.workflow.items) :
          a # b => call.workflow.items[a].id # call.workflow.items[b].id) =>
    LET declared == C26_Declared(call.ret)
        nodes == { declared[k] : k \in 1..Len(declared) }
        edges == EdgesOf(call.ret)
        classes == C22_ClassLines(call.ret)
    IN  /\ Len(declared) = Len(call.workflow.items)
        /\ Cardinality(nodes) = Len(declared)
        /\ \A e \in edges : e.from \in nodes /\ e.to \in nodes
        /\ \A k \in 1..Len(classes) : Split(classes[k], " ")[4] \in nodes
        /\ \A k \in 2..Len(declared) :
             \E e \in edges : e.from = declared[k - 1] /\ e.to = declared[k]

----------------------------------------------------------------------------
(* C27 *)

\* the response of request r is the one its course calls for
C27_Answered(r) ==
  /\ Len(response[r]) = 1
  /\ \/ /\ Validate(body[r]) # "ok"
        /\ response[r][1].status = 400
     \/ /\ Validate(body[r]) = "ok"
        /\ pc[r] = "done"
        /\ response[r][1].status = 200
        /\ response[r][1].body.success = TRUE
        /\ DOMAIN response[r][1].body.data
             = {"workflow", "mermaid_diagram", "data_model", "summary"}
     \/ /\ Validate(body[r]) = "ok"
        /\ pc[r] = "failed"
        /\ response[r][1].status = 500

\* C27: every request to POST /api/scenario eventually receives exactly one
\* response and never two: 400 when validation rejects it, 200 with success
\* true and the four result fields when the pipeline completes, 500 when a
\* stage throws; the simulated delay always elapses, so an accepted request
\* never waits forever.
C27_ExactlyOneResponse ==
  \A r \in Requests :
    /\ [](Len(response[r]) <= 1)
    /\ [](pc[r] \in {"done", "failed"} => C27_Answered(r))
    /\ (pc[r] # "idle") ~> (pc[r] \in {"done", "failed"})

\* one request has been rejected and another answered after its wait
C27_Witness ==
  \E r, q \in Requests :
    /\ Validate(body[r]) = "short" /\ C27_Answered(r)
    /\ Validate(body[q]) = "ok" /\ pc[q] = "done" /\ C27_Answered(q)

\* C28: on the main page error and result are never both non-null, isLoading
\* is true exactly while a generation request is in flight, and when a
\* generation has completed and none is in flight, result alone is non-null
\* after a success and error alone after a failure.
C28_InFlight == page.requests # {}

C28_ErrorOrResult ==
  /\ ~(page.error # Null /\ page.result # Null)
  /\ page.isLoading <=> C28_InFlight
  /\ (~C28_InFlight /\ page.completed = "success")
       => (page.result # Null /\ page.error = Null)
  /\ (~C28_InFlight /\ page.completed = "failure")
       => (page.error # Null /\ page.result = Null)

\* a success, then a regeneration that failed
C28_Witness ==
  /\ page.sent = 2
  /\ page.completed = "failure"
  /\ ~C28_InFlight
  /\ page.error = Str(<<"A","n"," ","e","r","r","o","r"," ","o","c","c","u","r","r","e","d"," ","w","h","i","l","e"," ","g","e","n","e","r","a","t","i","n","g"," ","t","h","e"," ","s","c","e","n","a","r","i","o">>)
  /\ page.result = Null

\* C29: whenever the results section of the main page is shown, the
\* description under 'Your Scenario' is the description the displayed result
\* was generated from, also while a later generation request is in flight.
C29_ShownDescriptionOfResult ==
  ResultsShown(page) => Str(page.inputDescription) = page.resultOf

\* C30: whenever the diagram prop of a mounted MermaidDiagram changes to a
\* new non-empty value, a render of that value is started, and as long as the
\* component stays mounted with that value it shows in the end the outcome
\* for it (its svg, or an error for it) with isLoading false.
C30_Has(diagram) == mermaid.mounted /\ mermaid.diagram = diagram

C30_Shows(diagram) ==
  /\ C30_Has(diagram)
  /\ ~mermaid.isLoading
  /\ \/ mermaid.error # Null /\ mermaid.errorOf = Str(diagram)
     \/ mermaid.error = Null /\ mermaid.container = Svg(diagram)

C30_RenderStarted ==
  (mermaid.mounted /\ mermaid'.mounted /\ mermaid'.diagram # mermaid.diagram
     /\ mermaid'.diagram # <<>>)
    => \E r \in mermaid'.renders \ mermaid.renders : r.diagram = mermaid'.diagram

C30_LatestDiagramShown ==
  /\ [][C30_RenderStarted]_mermaid
  /\ \A diagram \in DiagramProps \ {<<>>} :
       C30_Has(diagram) ~> (~C30_Has(diagram) \/ C30_Shows(diagram))
====
